---- MODULE Spec2Model ----
(***************************************************************************)
(* CaLAN replication engine: the task map of an instance, its ICS file,    *)
(* and the reconciliation handlers of MulticastSync.                       *)
(*                                                                         *)
(* A task is a Python dict: here a function whose DOMAIN is the set of     *)
(* keys present.  String fields hold strings, the timestamp fields hold a  *)
(* stamp <<wall, zone>>, the alarm flags hold booleans.  A stamp stands    *)
(* for an ISO-8601 string: zone "naive" (no offset), "utc" (+00:00), "bad" *)
(* (a string datetime.fromisoformat rejects) or "none" (Python None).      *)
(* The host clock is taken to run at offset zero, so datetime.now() and    *)
(* datetime.now(timezone.utc) read the same wall value.                    *)
(***************************************************************************)
EXTENDS Integers, Sequences, FiniteSets, TLC

VARIABLES
    tasks,      \* tasks[i]: CalendarApp.tasks of instance i, an insertion-ordered dict:
                \*   a sequence of buckets [date |-> d, items |-> <<task, ...>>]
    disk,       \* disk[i]: calendar.ics of instance i, the sequence of its VTODOs
    clock,      \* the wall clock read by datetime.now()
    net,        \* datagrams in flight: a set of [to |-> instance, msg |-> message]
    peers,      \* peers[i]: MulticastSync.peers of instance i, a dict from the name
                \*   of a peer to its entry [last_seen |-> stamp]
    stats,      \* stats[i]: MulticastSync.sync_stats of instance i
    last,       \* the message the listener handled last, and on which instance
    before,     \* tasks, disk and sync_stats of that instance just before it was handled
    saved,      \* whether that handling called CalendarApp.save_tasks
    dup,        \* whether the last step handled the same datagram a second time
    hist,       \* the scenario of a two-instance run and what happened in it so far
    threads,    \* threads[th]: what thread th of an instance still has to do, the
                \*   locks it holds and the access it is in the middle of
    engine,     \* the MulticastSync object of instance A: running, its socket, its
                \*   listener thread, its zeroconf registration and its cleanup timer
    view        \* the window of instance A: view_mode, selected_date, the frames of
                \*   task_list, and the callbacks waiting in the GLib idle queue

vars == <<tasks, disk, clock, net, peers, stats, last, before, saved, dup, hist, threads,
          engine, view>>

----------------------------------------------------------------------------
(* Bounds of the model *)

MaxClock == 3      \* the clock stops when it reaches this value
MaxUserOps == 3    \* how many things the users do in a two-instance run
MaxPeerClock == 361  \* the clock of the peer directory run stops at this value
MaxIdle == 2       \* how many callbacks may wait in the GLib idle queue
MaxEngineOps == 3  \* how many datagrams, announcements and user actions an engine run has

----------------------------------------------------------------------------
(* Program constants *)

RecvBufSize          == 1024     \* self.socket.recvfrom(1024)
TimerPeriod          == 120      \* GLib.timeout_add_seconds(120, cleanup_timer)
StaleAfter           == 120      \* cutoff_time = datetime.now().timestamp() - 120
MaxDescriptionLength == 10000    \* MAX_DESCRIPTION_LENGTH of the task editor

----------------------------------------------------------------------------
(* Values *)

Instances == {"A", "B"}
Ids       == {"t1", "t2"}
Dates     == {"d1", "d2"}

None      == "None"                 \* dict.get on a missing string key
NoStamp   == <<0, "none">>          \* dict.get on a missing timestamp key
BadStamp  == <<0, "bad">>           \* an unparseable timestamp string
Naive(w)  == <<w, "naive">>
Utc(w)    == <<w, "utc">>

\* a description of the greatest length the task editor accepts
LongText  == "long"

\* len(description): the descriptions of the model are LongText or a few characters
TextLen(s) == IF s = LongText THEN MaxDescriptionLength ELSE 0

StampKeys == {"created_at", "updated_at", "alarm_time"}
BoolKeys  == {"alarm", "acknowledged"}

\* task.get(k)
Get(t, k) ==
    IF k \in DOMAIN t THEN t[k]
    ELSE IF k \in StampKeys THEN NoStamp
    ELSE IF k \in BoolKeys THEN FALSE
    ELSE None

\* Python truthiness of a string or timestamp field value
TruthyStr(s)   == s # None /\ s # ""
TruthyStamp(s) == s[2] # "none"

\* datetime.fromisoformat raises ValueError
Unparseable(s) == s[2] = "bad"

\* datetime.fromisoformat(s).replace(tzinfo=None): the wall value that is compared
WallOf(s) == s[1]

\* created_dt.replace(tzinfo=timezone.utc) when tzinfo is None
AsUtc(s) == IF s[2] = "naive" THEN Utc(s[1]) ELSE s

NowIso(t) == Naive(t)               \* datetime.now().isoformat()

----------------------------------------------------------------------------
(* The ordered task map *)

RECURSIVE SelectSeqBy(_, _, _)
\* [x for x in s if x.get("id") != id] when keep = FALSE, == id when keep = TRUE
SelectSeqBy(s, id, keep) ==
    IF s = <<>> THEN <<>>
    ELSE LET h == Head(s)
             r == SelectSeqBy(Tail(s), id, keep)
         IN IF (Get(h, "id") = id) = keep THEN <<h>> \o r ELSE r

DatesOf(T)     == {T[k].date : k \in DOMAIN T}
HasDate(T, d)  == d \in DatesOf(T)
PosOf(T, d)    == CHOOSE k \in DOMAIN T : T[k].date = d
Items(T, d)    == IF HasDate(T, d) THEN T[PosOf(T, d)].items ELSE <<>>

\* self.app.tasks[d] = items
SetItems(T, d, items) ==
    IF HasDate(T, d) THEN [T EXCEPT ![PosOf(T, d)].items = items]
    ELSE Append(T, [date |-> d, items |-> items])

RECURSIVE DelDate(_, _)
\* del self.app.tasks[d]
DelDate(T, d) ==
    IF T = <<>> THEN <<>>
    ELSE IF Head(T).date = d THEN Tail(T)
    ELSE <<Head(T)>> \o DelDate(Tail(T), d)

\* any(task.get("id") == id for task in items)
HasId(items, id) == \E k \in DOMAIN items : Get(items[k], "id") = id

\* the first index whose task has this id (the enumerate ... break loop)
IndexOfId(items, id) ==
    CHOOSE k \in DOMAIN items :
        /\ Get(items[k], "id") = id
        /\ \A j \in 1..(k - 1) : Get(items[j], "id") # id

\* the dict compared as a dict: dates to task lists, the order of the dates forgotten
TaskMap(T) == [d \in DatesOf(T) |-> Items(T, d)]

\* every task of the map, paired with the date of its bucket
Entries(T) ==
    UNION {{<<T[k].date, T[k].items[j]>> : j \in DOMAIN T[k].items} : k \in DOMAIN T}

\* the (date, task) pairs whose task has this id
EntriesOfId(T, id) == {e \in Entries(T) : Get(e[2], "id") = id}

----------------------------------------------------------------------------
(* ICSStorage: the calendar file *)

\* a parse failure that makes _task_to_vtodo raise, so that save_tasks writes nothing
VtodoRaises(task) ==
    \/ TruthyStamp(Get(task, "created_at")) /\ Unparseable(Get(task, "created_at"))
    \/ TruthyStamp(Get(task, "updated_at")) /\ Unparseable(Get(task, "updated_at"))
    \/ /\ Get(task, "alarm")
       /\ TruthyStamp(Get(task, "alarm_time"))
       /\ Unparseable(Get(task, "alarm_time"))

\* _task_to_vtodo(task, date_str), written at clock value t
TaskToVtodo(task, d, t) ==
    LET hasAlarm == Get(task, "alarm") /\ TruthyStamp(Get(task, "alarm_time"))
    IN [ uid      |-> Get(task, "id"),
         summary  |-> IF "description" \in DOMAIN task THEN task["description"]
                      ELSE "No description",
         status   |-> IF Get(task, "status") = "DELETED" THEN "CANCELLED"
                      ELSE "NEEDS-ACTION",
         dtstart  |-> d,
         time     |-> IF TruthyStr(Get(task, "time")) THEN task["time"] ELSE "",
         color    |-> IF "color" \in DOMAIN task THEN task["color"] ELSE "#4CAF50",
         profile  |-> IF TruthyStr(Get(task, "profile_name")) THEN task["profile_name"]
                      ELSE "",
         created  |-> IF TruthyStamp(Get(task, "created_at"))
                      THEN AsUtc(task["created_at"]) ELSE Utc(t),
         lastmod  |-> IF TruthyStamp(Get(task, "updated_at"))
                      THEN AsUtc(task["updated_at"]) ELSE Utc(t),
         alarm    |-> hasAlarm,
         trigger  |-> IF hasAlarm THEN AsUtc(task["alarm_time"]) ELSE NoStamp,
         ack      |-> hasAlarm /\ Get(task, "acknowledged") ]

\* _vtodo_to_task(todo)
VtodoToTask(v) ==
    LET base == [ id           |-> v.uid,
                  description  |-> v.summary,
                  time         |-> v.time,
                  color        |-> v.color,
                  profile_name |-> v.profile,
                  created_at   |-> v.created,
                  updated_at   |-> v.lastmod,
                  alarm        |-> v.alarm,
                  alarm_time   |-> v.trigger,
                  acknowledged |-> v.ack ]
    IN IF v.status \in {"DELETED", "CANCELLED"}
       THEN base @@ ("status" :> "DELETED")
       ELSE base

RECURSIVE FlattenVtodos(_, _)
\* the loop of ICSStorage.save_tasks over tasks.items(): one VTODO per task, in order
FlattenVtodos(T, t) ==
    IF T = <<>> THEN <<>>
    ELSE [k \in DOMAIN Head(T).items |-> TaskToVtodo(Head(T).items[k], Head(T).date, t)]
         \o FlattenVtodos(Tail(T), t)

\* ICSStorage.save_tasks(tasks): the new file content; unchanged when a conversion raises
IcsSaveTasks(T, D, t) ==
    IF \E e \in Entries(T) : VtodoRaises(e[2]) THEN D
    ELSE FlattenVtodos(T, t)

RECURSIVE GroupByDate(_, _)
\* the loop over cal.walk("VTODO") that fills tasks[date_str], appended to acc
GroupByDate(D, acc) ==
    IF D = <<>> THEN acc
    ELSE GroupByDate(Tail(D),
            SetItems(acc, Head(D).dtstart,
                     Append(Items(acc, Head(D).dtstart), VtodoToTask(Head(D)))))

\* ICSStorage.get_all_tasks_with_metadata(): every task of the file, tombstones included
GetAllTasksWithMetadata(D) == GroupByDate(D, <<>>)

\* ICSStorage.load_tasks(): the tasks of the file that are not deleted
LoadTasks(D) ==
    GroupByDate(SelectSeq(D, LAMBDA v : v.status \notin {"DELETED", "CANCELLED"}), <<>>)

\* CalendarApp.save_tasks(): saves self.tasks; an exception is logged and swallowed
SaveTasks(T, D, t) == IcsSaveTasks(T, D, t)

----------------------------------------------------------------------------
(* MulticastSync._clean_remote_task *)

CleanRemoteTask(task, t, fresh) ==
    task @@ [ id           |-> fresh,
              description  |-> "No description",
              color        |-> "#4CAF50",
              profile_name |-> "Unknown",
              created_at   |-> NowIso(t),
              updated_at   |-> NowIso(t),
              alarm        |-> FALSE,
              alarm_time   |-> NoStamp,
              acknowledged |-> FALSE ]

----------------------------------------------------------------------------
(* MulticastSync._apply_task_update *)

\* what a handler leaves behind: the task map, the file, whether it called
\* CalendarApp.save_tasks, and how much it added to sync_stats["errors"]
Outcome(T, D, s, e) == [tasks |-> T, disk |-> D, saved |-> s, errors |-> e]

\* SkipUpdate with the comparison turned round: the newer remote copy is skipped
SkipUpdate_Reversed(operation, task_update, local) ==
    LET remote_updated == Get(task_update, "updated_at")
        local_updated  == Get(local, "updated_at")
    IN /\ operation = "update"
       /\ TruthyStamp(remote_updated) /\ TruthyStamp(local_updated)
       /\ ~Unparseable(remote_updated) /\ ~Unparseable(local_updated)
       /\ WallOf(remote_updated) >= WallOf(local_updated)

\* SkipUpdate with < for <=: a tie overwrites the local copy
SkipUpdate_Strict(operation, task_update, local) ==
    LET remote_updated == Get(task_update, "updated_at")
        local_updated  == Get(local, "updated_at")
    IN /\ operation = "update"
       /\ TruthyStamp(remote_updated) /\ TruthyStamp(local_updated)
       /\ ~Unparseable(remote_updated) /\ ~Unparseable(local_updated)
       /\ WallOf(remote_updated) < WallOf(local_updated)

\* the timestamp check of the update branch: TRUE when the handler returns early
\* ("Skip update - local task is newer or same")
SkipUpdate(operation, task_update, local) ==
    LET remote_updated == Get(task_update, "updated_at")
        local_updated  == Get(local, "updated_at")
    IN /\ operation = "update"
       /\ TruthyStamp(remote_updated) /\ TruthyStamp(local_updated)
       /\ ~Unparseable(remote_updated) /\ ~Unparseable(local_updated)
       /\ WallOf(remote_updated) <= WallOf(local_updated)

\* ApplyDelete that drops the whole bucket of the deleted task
ApplyDelete_DropsBucket(T, D, task_id, date_str, t) ==
    IF HasDate(T, date_str) /\ HasId(Items(T, date_str), task_id)
    THEN Outcome(DelDate(T, date_str), SaveTasks(DelDate(T, date_str), D, t), TRUE, 0)
    ELSE Outcome(T, D, FALSE, 0)

\* the delete branch
ApplyDelete(T, D, task_id, date_str, t) ==
    IF HasDate(T, date_str) /\ HasId(Items(T, date_str), task_id)
    THEN LET rest == SelectSeqBy(Items(T, date_str), task_id, FALSE)
             T1   == IF Len(rest) = 0 THEN DelDate(T, date_str)
                     ELSE SetItems(T, date_str, rest)
         IN Outcome(T1, SaveTasks(T1, D, t), TRUE, 0)
    ELSE Outcome(T, D, FALSE, 0)

\* "Find existing task or add new one": the bucket with the cleaned task put in place
PutTask(T, date_str, task_id, cleaned_task) ==
    LET items == Items(T, date_str)
    IN SetItems(T, date_str,
                IF HasId(items, task_id)
                THEN [items EXCEPT ![IndexOfId(items, task_id)] = cleaned_task]
                ELSE Append(items, cleaned_task))

\* "Remove task from old date if it exists"
RemoveFromOld(T, old_date_str, task_id) ==
    IF TruthyStr(old_date_str) /\ HasDate(T, old_date_str)
    THEN LET rest == SelectSeqBy(Items(T, old_date_str), task_id, FALSE)
         IN IF Len(rest) = 0 THEN DelDate(T, old_date_str)
            ELSE SetItems(T, old_date_str, rest)
    ELSE T

\* the move branch
ApplyMove(T, D, task_update, task_id, date_str, t) ==
    LET cleaned_task == CleanRemoteTask(task_update, t, task_id)
        T1 == PutTask(T, date_str, task_id, cleaned_task)
        T2 == RemoveFromOld(T1, Get(task_update, "old_date"), task_id)
    IN Outcome(T2, SaveTasks(T2, D, t), TRUE, 0)

\* the add / update branch
ApplyAddOrUpdate(T, D, task_update, operation, task_id, date_str, t) ==
    LET items == Items(T, date_str)
    IN IF /\ HasId(items, task_id)
          /\ SkipUpdate(operation, task_update, items[IndexOfId(items, task_id)])
       THEN Outcome(T, D, FALSE, 0)
       ELSE LET T1 == PutTask(T, date_str, task_id,
                              CleanRemoteTask(task_update, t, task_id))
            IN Outcome(T1, SaveTasks(T1, D, t), TRUE, 0)

ApplyTaskUpdate(T, D, task_update, operation, t) ==
    LET task_id  == Get(task_update, "id")
        date_str == Get(task_update, "date")
    IN IF ~TruthyStr(task_id) \/ ~TruthyStr(date_str)
       THEN Outcome(T, D, FALSE, 0)
       ELSE IF operation = "delete"
            THEN ApplyDelete(T, D, task_id, date_str, t)
       ELSE IF operation = "move"
            THEN ApplyMove(T, D, task_update, task_id, date_str, t)
       ELSE ApplyAddOrUpdate(T, D, task_update, operation, task_id, date_str, t)

----------------------------------------------------------------------------
(* MulticastSync._full_merge_tasks *)

RECURSIVE FlatEntries(_)
\* the (date, task) pairs of a task map in iteration order
FlatEntries(T) ==
    IF T = <<>> THEN <<>>
    ELSE [k \in DOMAIN Head(T).items |-> [date |-> Head(T).date, task |-> Head(T).items[k]]]
         \o FlatEntries(Tail(T))

RECURSIVE IndexById(_, _)
\* the loops that build remote_task_map and local_task_map: one entry per truthy id,
\* at the position of the id's first occurrence, holding its last occurrence
IndexById(flat, acc) ==
    IF flat = <<>> THEN acc
    ELSE LET e   == Head(flat)
             id  == Get(e.task, "id")
             pos == {k \in DOMAIN acc : Get(acc[k].task, "id") = id}
         IN IndexById(Tail(flat),
                IF ~TruthyStr(id) THEN acc
                ELSE IF pos # {} THEN [acc EXCEPT ![CHOOSE k \in pos : TRUE] = e]
                ELSE Append(acc, e))

\* remote DELETED and local not: "Mark local task as deleted"
RemoteTombstoneWins(remote_task, local_task) ==
    /\ Get(remote_task, "status") = "DELETED"
    /\ Get(local_task, "status") # "DELETED"

\* the timestamp check of the full merge: TRUE when the remote fields are copied
RemoteIsNewer(remote_task, local_task) ==
    LET remote_updated == Get(remote_task, "updated_at")
        local_updated  == Get(local_task, "updated_at")
    IN /\ TruthyStamp(remote_updated) /\ TruthyStamp(local_updated)
       /\ ~Unparseable(remote_updated) /\ ~Unparseable(local_updated)
       /\ WallOf(remote_updated) > WallOf(local_updated)

\* "for key, value in remote_task.items(): if key != 'id': local_task[key] = value"
CopyFields(local_task, remote_task) ==
    [k \in (DOMAIN local_task) \cup (DOMAIN remote_task \ {"id"}) |->
        IF k \in DOMAIN remote_task /\ k # "id" THEN remote_task[k] ELSE local_task[k]]

\* InsertsAbsent without the status test: a tombstone is inserted like any task
InsertsAbsent_Always(remote_task) == TRUE

\* "Task doesn't exist locally - add it": only a task that is not a tombstone
InsertsAbsent(remote_task) == Get(remote_task, "status") # "DELETED"

\* the body of "for task_id, remote_data in remote_task_map.items()" for one remote
\* task.  st.tasks is self.app.tasks; st.local is local_task_map, the index over the
\* dicts that get_all_tasks_with_metadata() has just parsed from the file.  The
\* branch for a task found locally writes to those parsed dicts, not to
\* self.app.tasks.
MergeOne(st, r, t) ==
    LET task_id == Get(r.task, "id")
        pos     == {k \in DOMAIN st.local : Get(st.local[k].task, "id") = task_id}
    IN IF pos # {}
       THEN LET k == CHOOSE x \in pos : TRUE
                local_task == st.local[k].task
            IN IF RemoteTombstoneWins(r.task, local_task)
               THEN [st EXCEPT !.local[k].task = ("status" :> "DELETED") @@ local_task,
                               !.merged = TRUE]
               ELSE IF RemoteIsNewer(r.task, local_task)
               THEN [st EXCEPT !.local[k].task = CopyFields(local_task, r.task),
                               !.merged = TRUE]
               ELSE st
       ELSE IF InsertsAbsent(r.task)
            THEN [st EXCEPT !.tasks = SetItems(st.tasks, r.date,
                                         Append(Items(st.tasks, r.date),
                                                CleanRemoteTask(r.task, t, task_id))),
                            !.merged = TRUE]
            ELSE st

RECURSIVE MergeAll(_, _, _)
MergeAll(st, remote, t) ==
    IF remote = <<>> THEN st
    ELSE MergeAll(MergeOne(st, Head(remote), t), Tail(remote), t)

\* _full_merge_tasks(remote_tasks): remote_tasks is an ordered task map
FullMergeTasks(T, D, remote_tasks, t) ==
    LET local_tasks == GetAllTasksWithMetadata(D)
        st0 == [tasks  |-> T,
                local  |-> IndexById(FlatEntries(local_tasks), <<>>),
                merged |-> FALSE]
        st  == MergeAll(st0, IndexById(FlatEntries(remote_tasks), <<>>), t)
    IN IF st.merged
       THEN Outcome(st.tasks, SaveTasks(st.tasks, D, t), TRUE, 0)
       ELSE Outcome(st.tasks, D, FALSE, 0)

----------------------------------------------------------------------------
(* MulticastSync._merge_tasks and _handle_sync_response *)

\* a JSON value that is not an object where a task or a task map is expected: its
\* .get, .copy or .items raises AttributeError
Junk        == [junk |-> TRUE]
IsDict(x)   == "junk" \notin DOMAIN x
JunkPayload == <<Junk>>
IsTaskMap(remote_tasks) == \A k \in DOMAIN remote_tasks : IsDict(remote_tasks[k])

\* str(uuid.uuid4()) drawn at clock value t: an id that no task of the model has
Uuid4(t) == "uuid-" \o ToString(t)

\* "{task.get('id') for task in local_tasks if task.get('id')}"
LocalTaskIds(items) ==
    {Get(items[k], "id") : k \in {j \in DOMAIN items : TruthyStr(Get(items[j], "id"))}}

\* MergeTarget that takes the first task of the bucket whatever its id
MergeTarget_Head(items, id) == 1

\* the local task that a sync_response task with this id is compared with and
\* written to: "next(t for t in local_tasks if t.get('id') == remote_task_id)"
MergeTarget(items, id) == IndexOfId(items, id)

\* one remote task of a date that is not in the local map: appended after cleaning
MergeIntoNewDate(st, date_str, remote_task, t) ==
    IF st.raised THEN st
    ELSE IF ~IsDict(remote_task) THEN [st EXCEPT !.raised = TRUE]
    ELSE [st EXCEPT !.tasks = SetItems(st.tasks, date_str,
                                 Append(Items(st.tasks, date_str),
                                        CleanRemoteTask(remote_task, t, Uuid4(t))))]

\* one remote task of a date that is in the local map
MergeIntoExistingDate(st, date_str, remote_task, local_task_ids, t) ==
    IF st.raised THEN st
    ELSE IF ~IsDict(remote_task) THEN [st EXCEPT !.raised = TRUE]
    ELSE
      LET remote_task_id == Get(remote_task, "id")
          items == Items(st.tasks, date_str)
      IN IF TruthyStr(remote_task_id) /\ remote_task_id \notin local_task_ids
         THEN [st EXCEPT !.tasks = SetItems(st.tasks, date_str,
                                      Append(items, CleanRemoteTask(remote_task, t,
                                                                    remote_task_id))),
                         !.merged = TRUE]
         ELSE IF TruthyStr(remote_task_id) /\ remote_task_id \in local_task_ids
         THEN LET k == MergeTarget(items, remote_task_id)
                  local_task == items[k]
                  remote_updated == Get(remote_task, "updated_at")
                  local_updated  == Get(local_task, "updated_at")
                  copied == [st EXCEPT !.tasks = SetItems(st.tasks, date_str,
                                  [items EXCEPT ![k] = CopyFields(local_task, remote_task)]),
                                       !.merged = TRUE]
              IN IF TruthyStamp(remote_updated) /\ TruthyStamp(local_updated)
                 THEN IF Unparseable(remote_updated) \/ Unparseable(local_updated)
                      THEN [st EXCEPT !.errors = @ + 1]
                      ELSE IF WallOf(remote_updated) > WallOf(local_updated)
                      THEN copied ELSE st
                 ELSE IF TruthyStamp(remote_updated) /\ ~TruthyStamp(local_updated)
                 THEN copied
                 ELSE st
         ELSE st

RECURSIVE MergeNewList(_, _, _, _)
MergeNewList(st, date_str, remote_task_list, t) ==
    IF remote_task_list = <<>> THEN st
    ELSE MergeNewList(MergeIntoNewDate(st, date_str, Head(remote_task_list), t),
                      date_str, Tail(remote_task_list), t)

RECURSIVE MergeExistingList(_, _, _, _, _)
MergeExistingList(st, date_str, remote_task_list, local_task_ids, t) ==
    IF remote_task_list = <<>> THEN st
    ELSE MergeExistingList(
            MergeIntoExistingDate(st, date_str, Head(remote_task_list), local_task_ids, t),
            date_str, Tail(remote_task_list), local_task_ids, t)

\* the body of "for date_str, remote_task_list in remote_tasks.items()"
MergeDate(st, bucket, t) ==
    IF st.raised THEN st
    ELSE IF ~HasDate(st.tasks, bucket.date)
    THEN LET st0 == [st EXCEPT !.tasks = SetItems(st.tasks, bucket.date, <<>>)]
             st1 == MergeNewList(st0, bucket.date, bucket.items, t)
         IN IF st1.raised THEN st1 ELSE [st1 EXCEPT !.merged = TRUE]
    ELSE MergeExistingList(st, bucket.date, bucket.items,
                           LocalTaskIds(Items(st.tasks, bucket.date)), t)

RECURSIVE MergeDates(_, _, _)
MergeDates(st, remote_tasks, t) ==
    IF remote_tasks = <<>> THEN st
    ELSE MergeDates(MergeDate(st, Head(remote_tasks), t), Tail(remote_tasks), t)

RECURSIVE AddErrorDates(_, _, _)
\* "if error_date not in self.sync_stats['error_dates']: ... append(error_date)" for
\* every date of the remote map
AddErrorDates(error_dates, remote_tasks, kind) ==
    IF remote_tasks = <<>> THEN error_dates
    ELSE LET error_date == <<Head(remote_tasks).date, kind>>
         IN AddErrorDates(
                IF \E k \in DOMAIN error_dates : error_dates[k] = error_date
                THEN error_dates ELSE Append(error_dates, error_date),
                Tail(remote_tasks), kind)

\* _merge_tasks(remote_tasks) on task map T, file D and sync_stats S.  An exception
\* leaves the map as the loop had left it, saves nothing and is counted; when the
\* payload is not a dict, the handler's own remote_tasks.keys() raises again and
\* _handle_message logs that.
MergeTasks(T, D, S, remote_tasks, t) ==
    IF ~IsTaskMap(remote_tasks)
    THEN [tasks |-> T, disk |-> D, saved |-> FALSE,
          stats |-> [S EXCEPT !.errors = @ + 1]]
    ELSE LET st == MergeDates([tasks |-> T, merged |-> FALSE, errors |-> 0,
                               raised |-> FALSE], remote_tasks, t)
         IN IF st.raised
            THEN [tasks |-> st.tasks, disk |-> D, saved |-> FALSE,
                  stats |-> [S EXCEPT !.errors = @ + st.errors + 1,
                                      !.error_dates = AddErrorDates(@, remote_tasks,
                                                                    "merge error")]]
            ELSE [tasks |-> st.tasks,
                  disk  |-> IF st.merged THEN SaveTasks(st.tasks, D, t) ELSE D,
                  saved |-> st.merged,
                  stats |-> [S EXCEPT !.errors = @ + st.errors]]

\* _handle_sync_response: "remote_tasks = message.get('tasks', {}); if remote_tasks:"
HandleSyncResponse(T, D, S, message, t) ==
    IF "tasks" \notin DOMAIN message \/ message.tasks = <<>>
    THEN [tasks |-> T, disk |-> D, saved |-> FALSE, stats |-> S]
    ELSE MergeTasks(T, D, S, message.tasks, t)

----------------------------------------------------------------------------
(* MulticastSync._handle_task_update *)

\* self.app.settings.get("name", "Unknown") of each instance
NameOf(i) == IF i = "A" THEN "alice" ELSE "bob"

\* the handler on instance i with task map T, file D and sync_stats S; the result is
\* an Outcome extended with the new sync_stats
HandleTaskUpdate(i, T, D, S, message, t) ==
    LET task_update == message.task
        operation   == message.operation
        S1 == IF operation = "full_sync" /\ message.sender # NameOf(i)
              THEN [S EXCEPT !.received = @ + 1] ELSE S
        out == IF operation = "full_sync"
               THEN IF TruthyStr(Get(task_update, "date"))
                    THEN FullMergeTasks(T, D,
                            <<[date |-> task_update["date"], items |-> <<task_update>>]>>, t)
                    ELSE Outcome(T, D, FALSE, 0)
               ELSE ApplyTaskUpdate(T, D, task_update, operation, t)
    IN IF DOMAIN task_update = {}
       THEN [tasks |-> T, disk |-> D, saved |-> FALSE, stats |-> S]
       ELSE [tasks |-> out.tasks, disk |-> out.disk, saved |-> out.saved,
             stats |-> [S1 EXCEPT !.errors = @ + out.errors]]

----------------------------------------------------------------------------
(* MulticastSync._handle_message *)

\* bytes that json.loads rejects: JSONDecodeError, "Invalid JSON received"
Undecodable == [type |-> None, raw |-> "garbage"]
Decodes(message) == "raw" \notin DOMAIN message

\* HandleTestMessage that counts the failed call in sync_stats
HandleTestMessage_Counted(S) == [S EXCEPT !.errors = @ + 1]

\* the test_message branch calls self._handle_test_message, which is defined
\* nowhere: the AttributeError is logged by the "except Exception" of
\* _handle_message ("Error handling unicast message") and sync_stats is not touched
HandleTestMessage(S) == S

\* _handle_full_sync_request: self.sync_stats["sent"] = task_count, the number of
\* tasks in the file
HandleFullSyncRequest(D, S) ==
    [S EXCEPT !.sent = Len(FlatEntries(GetAllTasksWithMetadata(D)))]

\* what handling one datagram does to the task map, the file and sync_stats of
\* instance i.  sync_request changes none of them; any other type is logged as
\* unknown.
HandleMessage(i, T, D, S, message, t) ==
    IF Decodes(message) /\ message.type = "task_update"
    THEN HandleTaskUpdate(i, T, D, S, message, t)
    ELSE IF Decodes(message) /\ message.type = "sync_response"
    THEN HandleSyncResponse(T, D, S, message, t)
    ELSE IF Decodes(message) /\ message.type = "test_message"
    THEN [tasks |-> T, disk |-> D, saved |-> FALSE, stats |-> HandleTestMessage(S)]
    ELSE IF Decodes(message) /\ message.type = "full_sync_request"
    THEN [tasks |-> T, disk |-> D, saved |-> FALSE, stats |-> HandleFullSyncRequest(D, S)]
    ELSE [tasks |-> T, disk |-> D, saved |-> FALSE, stats |-> S]

----------------------------------------------------------------------------
(* Inbound datagrams: what a peer, or anything else on the segment, may send *)

\* an optional key of a dict
Opt(present, k, v) == IF present THEN (k :> v) ELSE <<>>

WireStamps == {Naive(1), Naive(2), Naive(3), BadStamp}

\* a task as its sender serialised it: with its timestamps and description, or
\* sparse (none of them), and with or without a DELETED status
FullTask(id, d, u, deleted) ==
    [id |-> id, date |-> d, description |-> "x", created_at |-> Naive(1), updated_at |-> u]
        @@ Opt(deleted, "status", "DELETED")
SparseTask(id, d, deleted) ==
    [id |-> id, date |-> d] @@ Opt(deleted, "status", "DELETED")

\* tasks that lack the id or the date
MalformedTasks ==
    { [date |-> "d1", description |-> "x", created_at |-> Naive(1), updated_at |-> Naive(3)],
      [id |-> "t1", description |-> "x", created_at |-> Naive(1), updated_at |-> Naive(3)] }

\* the tasks of the full_sync datagrams: every stamp, live and tombstone
FullSyncTasks ==
    {FullTask("t1", d, u, del) : d \in Dates, u \in WireStamps, del \in BOOLEAN}
        \cup {SparseTask("t1", d, del) : d \in Dates, del \in BOOLEAN}
        \cup MalformedTasks

\* the tasks of the update datagrams: every stamp, and a tombstone
UpdateTasks ==
    {FullTask("t1", d, u, FALSE) : d \in Dates, u \in WireStamps}
        \cup {FullTask("t1", d, Naive(3), TRUE) : d \in Dates}
        \cup {SparseTask("t1", d, FALSE) : d \in Dates}
        \cup MalformedTasks

\* the tasks of the add datagrams (the add branch reads no timestamp)
AddTasks ==
    {FullTask("t1", d, u, FALSE) : d \in Dates, u \in {Naive(1), Naive(3)}}
        \cup {SparseTask("t1", d, FALSE) : d \in Dates}
        \cup MalformedTasks

\* the tasks of the move datagrams, each with old_date absent or one of the dates
MoveTasks ==
    {task @@ Opt(old # None, "old_date", old) :
        task \in {FullTask("t1", d, Naive(2), FALSE) : d \in Dates}
                   \cup {SparseTask("t1", d, FALSE) : d \in Dates},
        old \in Dates \cup {None}}
        \cup MalformedTasks

\* the tasks of the delete datagrams (the delete branch reads id and date only)
DeleteTasks == {SparseTask("t1", d, FALSE) : d \in Dates} \cup MalformedTasks

TaskUpdate(task, operation) ==
    [type |-> "task_update", sender |-> "peer", task |-> task, operation |-> operation]

WireMessages ==
    {TaskUpdate(task, "full_sync") : task \in FullSyncTasks}
    \cup {TaskUpdate(task, "update") : task \in UpdateTasks}
    \cup {TaskUpdate(task, "add") : task \in AddTasks}
    \cup {TaskUpdate(task, "move") : task \in MoveTasks}
    \cup {TaskUpdate(task, "delete") : task \in DeleteTasks}

----------------------------------------------------------------------------
(* The files an instance may start from *)

Vtodo(id, d, w, deleted) ==
    [ uid |-> id, summary |-> "a", status |-> IF deleted THEN "CANCELLED" ELSE "NEEDS-ACTION",
      dtstart |-> d, time |-> "", color |-> "#4CAF50", profile |-> "alice",
      created |-> Utc(1), lastmod |-> Utc(w),
      alarm |-> FALSE, trigger |-> NoStamp, ack |-> FALSE ]

\* a fresh install; two live tasks; a tombstone left by an earlier run and a live task
InitDisks ==
    { <<>>,
      <<Vtodo("t1", "d1", 2, FALSE), Vtodo("t2", "d2", 2, FALSE)>>,
      <<Vtodo("t1", "d1", 2, TRUE), Vtodo("t2", "d2", 2, FALSE)>> }

NoMessage == [type |-> "none", to |-> "none"]
NoStats   == [sent |-> 0, received |-> 0, errors |-> 0, error_dates |-> <<>>]
NoBefore  == [tasks |-> <<>>, disk |-> <<>>, stats |-> NoStats]
NoPeers   == <<>>                   \* self.peers = {}

\* the entry _handle_service_discovered writes at clock value t (ip, port and name,
\* which no sweep reads, are left out)
PeerEntry(t) == [last_seen |-> NowIso(t)]

\* the threads of an instance: the GTK main loop, the listener thread started by
\* start_listening, and the thread on which zeroconf calls the service listener
Threads   == {"main", "listener", "zeroconf"}
\* a thread with nothing to do: no steps left, no lock held, in no access; queued
\* counts the callbacks that GLib.idle_add has handed to the thread and that it has
\* not run yet (only the main loop is ever handed one)
Idle      == [todo |-> <<>>, held |-> <<>>, doing |-> "none", queued |-> 0]
NoThreads == [th \in Threads |-> Idle]
\* MulticastSync.__init__: running = False, socket = None, listener_thread = None,
\* zeroconf = None; no cleanup timer is scheduled.  inbox is the datagram recvfrom
\* has returned and _handle_message has not handled yet, late whether it arrived
\* after stop_listening.
NotStarted == [running |-> FALSE, socket |-> "none", listener |-> "none",
               zeroconf |-> FALSE, timer |-> "none", started |-> "no",
               stopped |-> FALSE, inbox |-> <<>>, late |-> FALSE]
\* CalendarApp.__init__: the calendar is shown, no date is selected, there is no
\* task_list, and nothing waits in the idle queue
NoView    == [mode |-> "calendar", selected |-> None, listed |-> FALSE,
              frames |-> <<>>, queued |-> <<>>]
NoHist    == [scenario |-> "single", ops |-> 0, deleted |-> {}, synced |-> {},
              requested |-> {}, syncedAfterDelete |-> FALSE, streamed |-> {},
              lost |-> FALSE]

\* CalendarApp.__init__: self.tasks = self.load_tasks()
InitSingle ==
    /\ disk \in [Instances -> InitDisks]
    /\ disk["B"] = <<>>
    /\ tasks = [i \in Instances |-> LoadTasks(disk[i])]
    /\ clock = 1
    /\ net = {}
    /\ peers = [i \in Instances |-> NoPeers]
    /\ stats = [i \in Instances |-> NoStats]
    /\ last = NoMessage
    /\ before = NoBefore
    /\ saved = FALSE
    /\ dup = FALSE
    /\ hist = NoHist
    /\ threads = NoThreads
    /\ engine = NotStarted
    /\ view = NoView

\* _listener_loop / _handle_message on instance i for one datagram
Handle(i, message, again) ==
    LET out == HandleMessage(i, tasks[i], disk[i], stats[i], message, clock)
    IN /\ tasks' = [tasks EXCEPT ![i] = out.tasks]
       /\ disk'  = [disk EXCEPT ![i] = out.disk]
       /\ stats' = [stats EXCEPT ![i] = out.stats]
       /\ saved' = out.saved
       /\ before' = [tasks |-> tasks[i], disk |-> disk[i], stats |-> stats[i]]
       /\ last' = message @@ [to |-> i]
       /\ dup' = again

\* a task_update datagram arrives at instance A; the next one arrives later
Receive ==
    \E message \in WireMessages :
        /\ clock < MaxClock
        /\ clock' = clock + 1
        /\ Handle("A", message, FALSE)
        /\ UNCHANGED <<view, engine, threads, net, peers, hist>>

\* the datagram handled last arrives once more (UDP may duplicate a datagram)
Redeliver ==
    /\ last.type = "task_update"
    /\ clock < MaxClock
    /\ clock' = clock + 1
    /\ Handle(last.to, [k \in DOMAIN last \ {"to"} |-> last[k]], TRUE)
    /\ UNCHANGED <<view, engine, threads, net, peers, hist>>

Next == Receive \/ Redeliver

Spec == InitSingle /\ [][Next]_vars

----------------------------------------------------------------------------
(* One instance that receives sync_response, full_sync and malformed datagrams *)

\* a task of a sync_response map (the sender's self.app.tasks carries no date key)
RemoteTask(id, u) ==
    [id |-> id, description |-> "x", created_at |-> Naive(1), updated_at |-> u]
NoIdTask == [description |-> "x", created_at |-> Naive(1), updated_at |-> Naive(2)]

Bucket(d, items) == [date |-> d, items |-> items]

\* a tombstone as the sender holds it in its map
RemoteTombstone(id, u) == RemoteTask(id, u) @@ [status |-> "DELETED"]

\* the task lists of one date: a newer, an older and an unreadable copy of t1, a new
\* task t3 in two versions and as a tombstone, a task without id, an entry that is
\* not a dict, and lists where one of the faulty entries stands before or after a
\* good one
SyncTaskLists ==
    { <<RemoteTask("t1", Naive(3))>>, <<RemoteTask("t1", Naive(1))>>,
      <<RemoteTask("t3", Naive(2))>>, <<RemoteTask("t3", Naive(3))>>,
      <<RemoteTombstone("t3", Naive(2))>>,
      <<NoIdTask>>, <<Junk>>,
      <<RemoteTask("t1", BadStamp), RemoteTask("t3", Naive(2))>>,
      <<Junk, RemoteTask("t3", Naive(2))>>,
      <<RemoteTask("t3", Naive(2)), Junk>> }

\* the "tasks" of the sync_response datagrams: one date, two dates, no date, or
\* something that is not a dict
SyncPayloads ==
    {<<Bucket(d, l)>> : d \in Dates, l \in SyncTaskLists}
        \cup { <<Bucket("d1", <<RemoteTask("t3", Naive(2))>>), Bucket("d2", <<Junk>>)>>,
               <<Bucket("d1", <<RemoteTask("t3", Naive(2))>>),
                 Bucket("d2", <<RemoteTask("t4", Naive(2))>>)>>,
               <<>>, JunkPayload }

SyncResponse(remote_tasks) ==
    [type |-> "sync_response", sender |-> "peer", tasks |-> remote_tasks]

\* datagrams that are not JSON, have an unknown type or no type, or lack "task" or
\* "tasks", and task_updates whose task lacks the id or the date
MalformedMessages ==
    { Undecodable,
      [type |-> "bogus", sender |-> "peer"],
      [type |-> None, sender |-> "peer"],
      [type |-> "sync_response", sender |-> "peer"],
      TaskUpdate(<<>>, "update") }
        \cup {TaskUpdate(task, operation) :
                 task \in MalformedTasks, operation \in {"update", "full_sync"}}

ReceiveSyncResponse ==
    \E remote_tasks \in SyncPayloads :
        /\ clock < MaxClock
        /\ clock' = clock + 1
        /\ Handle("A", SyncResponse(remote_tasks), FALSE)
        /\ UNCHANGED <<view, net, peers, hist, threads, engine>>

ReceiveFullSync ==
    \E task \in FullSyncTasks :
        /\ clock < MaxClock
        /\ clock' = clock + 1
        /\ Handle("A", TaskUpdate(task, "full_sync"), FALSE)
        /\ UNCHANGED <<view, net, peers, hist, threads, engine>>

ReceiveMalformed ==
    \E message \in MalformedMessages :
        /\ clock < MaxClock
        /\ clock' = clock + 1
        /\ Handle("A", message, FALSE)
        /\ UNCHANGED <<view, net, peers, hist, threads, engine>>

NextMerge == ReceiveSyncResponse \/ ReceiveFullSync \/ ReceiveMalformed

SpecMerge == InitSingle /\ [][NextMerge]_vars

----------------------------------------------------------------------------
(* The peer directory of one instance: discovery, removal and the sweep *)

\* the instances that zeroconf may announce to instance A
PeerNames == {"B", "C"}

\* the seconds that pass between two events: just under the staleness window, or
\* exactly the window
Elapses == {StaleAfter - 1, StaleAfter}

\* Stale with <= for <: an entry seen exactly StaleAfter seconds ago is evicted
Stale_Inclusive(peer, t) ==
    \/ Unparseable(peer.last_seen)
    \/ WallOf(peer.last_seen) <= t - StaleAfter

\* "last_seen < cutoff_time", or last_seen does not parse (the bare except)
Stale(peer, t) ==
    \/ Unparseable(peer.last_seen)
    \/ WallOf(peer.last_seen) < t - StaleAfter

\* _cleanup_stale_peers at clock value t: the directory without its stale entries
CleanupStalePeers(P, t) ==
    [p \in {q \in DOMAIN P : ~Stale(P[q], t)} |-> P[p]]

\* self.instance_name of instance A, and the names zeroconf may call back with: the
\* browser also sees the service that A registered itself
OwnName   == "A"
Announced == PeerNames \cup {OwnName}

\* what zeroconf.get_service_info(type, name) gives the service listener: None (the
\* service did not resolve in time), an info that _handle_service_discovered can
\* read, or one on which it raises (no address and socket.gethostbyname(info.server)
\* fails, or a name property that does not decode)
Infos == {"none", "resolved", "unreadable"}

\* HandleServiceDiscovered without "if instance_name == self.instance_name: return"
HandleServiceDiscovered_NoSelfSkip(P, instance_name, info, t) ==
    IF info = "unreadable" THEN P
    ELSE (instance_name :> PeerEntry(t)) @@ P

\* _handle_service_discovered(info) at clock value t: the own service is skipped, an
\* exception is logged and leaves the directory alone, otherwise the entry of the
\* instance is written or overwritten
HandleServiceDiscovered(P, instance_name, info, t) ==
    IF instance_name = OwnName THEN P
    ELSE IF info = "unreadable" THEN P
    ELSE (instance_name :> PeerEntry(t)) @@ P

\* CaLANServiceListener.add_service / update_service: "if info:" before the handler
AddService(P, instance_name, info, t) ==
    IF info = "none" THEN P
    ELSE HandleServiceDiscovered(P, instance_name, info, t)

\* zeroconf announces instance p, for the first time or again
ServiceDiscovered(p) ==
    \E info \in Infos :
        /\ peers' = [peers EXCEPT !["A"] = AddService(@, p, info, clock)]
        /\ last' = [type |-> "discovered", to |-> "A", peer |-> p, info |-> info,
                    directory |-> peers["A"], at |-> clock]
    /\ UNCHANGED <<view, tasks, disk, clock, net, stats, before, saved, dup, hist, threads, engine>>

\* _handle_service_removed
ServiceRemoved(p) ==
    /\ p \in DOMAIN peers["A"]
    /\ peers' = [peers EXCEPT !["A"] = [q \in DOMAIN @ \ {p} |-> @[q]]]
    /\ last' = [type |-> "removed", to |-> "A", peer |-> p]
    /\ UNCHANGED <<view, tasks, disk, clock, net, stats, before, saved, dup, hist, threads, engine>>

\* cleanup_timer: the sweep runs; last keeps the directory it met and its clock
Sweep ==
    /\ peers' = [peers EXCEPT !["A"] = CleanupStalePeers(@, clock)]
    /\ last' = [type |-> "sweep", to |-> "A", directory |-> peers["A"], at |-> clock]
    /\ UNCHANGED <<view, tasks, disk, clock, net, stats, before, saved, dup, hist, threads, engine>>

\* time passes
Elapse(d) ==
    /\ clock + d <= MaxPeerClock
    /\ clock' = clock + d
    /\ UNCHANGED <<view, tasks, disk, net, peers, stats, last, before, saved, dup, hist, threads, engine>>

NextPeers ==
    \/ \E p \in Announced : ServiceDiscovered(p)
    \/ \E p \in PeerNames : ServiceRemoved(p)
    \/ Sweep
    \/ \E d \in Elapses : Elapse(d)

SpecPeers == InitSingle /\ [][NextPeers]_vars

----------------------------------------------------------------------------
(* The threads of one instance, their locks and their accesses.  An operation is   *)
(* the sequence of its lock operations, of the accesses it makes to the task map,  *)
(* the file, the peer directory and the widgets, and of its hand-offs to the idle  *)
(* queue, in program order.  The contents of the task map are not followed here.   *)

Acq(lock)     == [kind |-> "acquire", obj |-> lock]
Rel(lock)     == [kind |-> "release", obj |-> lock]
Begin(access) == [kind |-> "begin", obj |-> access]
End           == [kind |-> "end", obj |-> "none"]
IdleAdd       == [kind |-> "idle_add", obj |-> "none"]

\* an access takes time: other threads may run between its beginning and its end
Access(access) == <<Begin(access), End>>

\* _send_message(message) with no address: "with self.peers_lock:" around the loop
\* over self.peers
SendToAllSteps == <<Acq("peers_lock")>> \o Access("read_peers") \o <<Rel("peers_lock")>>

\* ApplyTaskUpdateSteps with a broadcast inside "with self.tasks_lock:"
ApplyTaskUpdateSteps_Broadcasting ==
    <<Acq("tasks_lock")>> \o Access("write_tasks") \o Access("save_tasks")
        \o SendToAllSteps \o <<IdleAdd, Rel("tasks_lock")>>

\* _apply_task_update: the map is changed, saved and the refresh queued, all inside
\* "with self.tasks_lock:"
ApplyTaskUpdateSteps ==
    <<Acq("tasks_lock")>> \o Access("write_tasks") \o Access("save_tasks")
        \o <<IdleAdd, Rel("tasks_lock")>>

\* _merge_tasks: "if merged: self.app.save_tasks()" stands after the with-block
MergeTasksSteps ==
    <<Acq("tasks_lock")>> \o Access("write_tasks") \o <<Rel("tasks_lock")>>
        \o Access("save_tasks") \o <<IdleAdd>>

\* _full_merge_tasks: as _merge_tasks, and _show_sync_success builds its Gtk.Dialog
\* in the caller's thread when _is_user_initiated_sync is set (full_sync sets it);
\* when it is not set the steps are those of MergeTasksSteps
FullMergeTasksSteps ==
    <<Acq("tasks_lock")>> \o Access("write_tasks") \o <<Rel("tasks_lock")>>
        \o Access("save_tasks") \o <<IdleAdd>> \o Access("ui")

\* _handle_sync_request: json.dumps of a message that holds self.app.tasks, sent to
\* the address of the requester
HandleSyncRequestSteps == Access("read_tasks")

\* _handle_full_sync_request: the file is read and every task is broadcast
HandleFullSyncRequestSteps == SendToAllSteps

\* add_task: the task is appended and saved
AddTaskSteps == Access("write_tasks") \o Access("save_tasks")

\* save_current_tasks and delete_task: the map is changed, saved, and the change is
\* broadcast
EditTaskSteps == Access("write_tasks") \o Access("save_tasks") \o SendToAllSteps

\* on_drag_data_received: the task is moved, the move is broadcast, the map is saved
DragMoveSteps == Access("write_tasks") \o SendToAllSteps \o Access("save_tasks")

\* manual_sync: a sync_request to all, then a sync_response that holds self.app.tasks
\* (a public method; whoever calls it is taken to be the foreground)
ManualSyncSteps == SendToAllSteps \o Access("read_tasks") \o SendToAllSteps

\* full_sync: the file is read, every task is broadcast, _show_sync_success
FullSyncSteps == SendToAllSteps \o Access("ui")

\* cleanup_timer, on the GLib main loop: _cleanup_stale_peers
CleanupSteps == <<Acq("peers_lock")>> \o Access("write_peers") \o <<Rel("peers_lock")>>

\* test_mdns_discovery: the directory is listed, then a test message is sent
\* (a public method; whoever calls it is taken to be the foreground)
TestDiscoverySteps == SendToAllSteps \o SendToAllSteps

\* a callback handed over by GLib.idle_add: safe_update_ui and the like
IdleCallbackSteps == Access("ui")

\* _handle_service_discovered and _handle_service_removed, called by zeroconf
DirectoryUpdateSteps ==
    <<Acq("peers_lock")>> \o Access("write_peers") \o <<Rel("peers_lock")>>

\* what each thread may start when it has nothing to do
OpsOf(th) ==
    IF th = "listener"
    THEN {ApplyTaskUpdateSteps, MergeTasksSteps, FullMergeTasksSteps,
          HandleSyncRequestSteps, HandleFullSyncRequestSteps}
    ELSE IF th = "main"
    THEN {AddTaskSteps, EditTaskSteps, DragMoveSteps, ManualSyncSteps, FullSyncSteps,
          CleanupSteps, TestDiscoverySteps}
    ELSE {DirectoryUpdateSteps}

HeldBy(th, lock) == \E k \in DOMAIN threads[th].held : threads[th].held[k] = lock
NextStep(th, kind) == threads[th].todo # <<>> /\ Head(threads[th].todo).kind = kind
LockVars == <<tasks, disk, clock, net, peers, stats, last, before, saved, dup, hist, engine,
              view>>

\* a datagram arrives, the user does something, a timer fires, zeroconf calls back
StartOp(th) ==
    \E op \in OpsOf(th) :
        /\ threads[th].todo = <<>>
        /\ threads' = [threads EXCEPT ![th].todo = op]
        /\ UNCHANGED LockVars

\* the main loop runs a queued idle callback
StartIdleCallback ==
    /\ threads["main"].todo = <<>>
    /\ threads["main"].queued > 0
    /\ threads' = [threads EXCEPT !["main"].todo = IdleCallbackSteps,
                                  !["main"].queued = @ - 1]
    /\ UNCHANGED LockVars

\* RLock.acquire: when no other thread holds the lock; the holder may take it again
Acquire(th) ==
    /\ NextStep(th, "acquire")
    /\ \A other \in Threads \ {th} : ~HeldBy(other, Head(threads[th].todo).obj)
    /\ threads' = [threads EXCEPT ![th].held = <<Head(threads[th].todo).obj>> \o @,
                                  ![th].todo = Tail(@)]
    /\ UNCHANGED LockVars

\* RLock.release at the end of the with-block: the innermost lock taken
Release(th) ==
    /\ NextStep(th, "release")
    /\ threads[th].held # <<>> /\ Head(threads[th].held) = Head(threads[th].todo).obj
    /\ threads' = [threads EXCEPT ![th].held = Tail(@), ![th].todo = Tail(@)]
    /\ UNCHANGED LockVars

BeginAccess(th) ==
    /\ NextStep(th, "begin")
    /\ threads' = [threads EXCEPT ![th].doing = Head(threads[th].todo).obj,
                                  ![th].todo = Tail(@)]
    /\ UNCHANGED LockVars

EndAccess(th) ==
    /\ NextStep(th, "end")
    /\ threads' = [threads EXCEPT ![th].doing = "none", ![th].todo = Tail(@)]
    /\ UNCHANGED LockVars

\* GLib.idle_add(callback): the callback will run on the main loop
QueueIdle(th) ==
    /\ NextStep(th, "idle_add")
    /\ threads["main"].queued < MaxIdle
    /\ threads' = [threads EXCEPT ![th].todo = Tail(@),
                                  !["main"].queued = threads["main"].queued + 1]
    /\ UNCHANGED LockVars

InitLock == InitSingle /\ disk["A"] = <<>>

NextLock ==
    \/ \E th \in Threads : StartOp(th)
    \/ StartIdleCallback
    \/ \E th \in Threads : Acquire(th)
    \/ \E th \in Threads : Release(th)
    \/ \E th \in Threads : BeginAccess(th)
    \/ \E th \in Threads : EndAccess(th)
    \/ \E th \in Threads : QueueIdle(th)

SpecLock == InitLock /\ [][NextLock]_vars

----------------------------------------------------------------------------
(* Two instances that know each other *)

\* _send_message(message) with no address: one datagram to every peer in the directory
SendToPeers(i, messages) == {[to |-> p, msg |-> m] : p \in DOMAIN peers[i], m \in messages}

\* broadcast_task_update(task, operation): the message built ("timestamp", which no
\* handler reads, is left out)
BroadcastMessage(i, task, operation) ==
    [type |-> "task_update", sender |-> NameOf(i), task |-> task, operation |-> operation]

\* the loop of full_sync and of _handle_full_sync_request: one full_sync task_update
\* for every task of the file, tombstones included, each with its date
FullSyncMessages(i, D) ==
    {BroadcastMessage(i, ("date" :> e.date) @@ e.task, "full_sync") :
        e \in {FlatEntries(GetAllTasksWithMetadata(D))[k] :
                 k \in DOMAIN FlatEntries(GetAllTasksWithMetadata(D))}}

\* json.dumps(message).encode() is longer than the listener's receive buffer: the
\* datagram is cut at RecvBufSize bytes and json.loads raises JSONDecodeError.  The
\* description is the one field of a task_update whose length the sender does not
\* bound below the buffer; the other fields together stay well under it.
Oversized(message) ==
    \/ /\ "task" \in DOMAIN message
       /\ TextLen(Get(message.task, "description")) > RecvBufSize
    \/ /\ "tasks" \in DOMAIN message
       /\ \E k \in DOMAIN message.tasks :
             /\ "items" \in DOMAIN message.tasks[k]
             /\ \E j \in DOMAIN message.tasks[k].items :
                   /\ IsDict(message.tasks[k].items[j])
                   /\ TextLen(Get(message.tasks[k].items[j], "description")) > RecvBufSize

\* RecvFrom of a listener whose buffer takes the whole datagram
RecvFrom_Whole(message) == message

\* self.socket.recvfrom(1024) and json.loads: what the listener makes of a datagram.
\* One that is longer than the buffer is cut, and the cut text is not JSON.
RecvFrom(message) == IF Oversized(message) THEN Undecodable ELSE message

Scenarios == {"shared", "disjoint", "disjointLong"}

\* the two instances start with the same task, or with one task each; in
\* "disjointLong" the task of A has a description of the greatest length
ScenarioDisks(scenario) ==
    IF scenario = "shared"
    THEN [i \in Instances |-> <<Vtodo("t1", "d1", 1, FALSE)>>]
    ELSE [i \in Instances |->
            IF i = "B" THEN <<Vtodo("t2", "d1", 2, FALSE)>>
            ELSE IF scenario = "disjoint" THEN <<Vtodo("t1", "d1", 1, FALSE)>>
            ELSE <<[Vtodo("t1", "d1", 1, FALSE) EXCEPT !.summary = LongText]>>]

InitNet ==
    /\ \E scenario \in Scenarios :
          /\ hist = [NoHist EXCEPT !.scenario = scenario]
          /\ disk = ScenarioDisks(scenario)
    /\ tasks = [i \in Instances |-> LoadTasks(disk[i])]
    /\ clock = 1
    /\ net = {}
    /\ peers = [i \in Instances |-> [p \in Instances \ {i} |-> PeerEntry(clock)]]
    /\ stats = [i \in Instances |-> NoStats]
    /\ last = NoMessage
    /\ before = NoBefore
    /\ saved = FALSE
    /\ dup = FALSE
    /\ threads = NoThreads
    /\ engine = NotStarted
    /\ view = NoView

\* In a two-instance run the clock advances with every thing a user does.

\* TaskManagement.delete_task: the user deletes the k-th task shown for date d
UserDelete(i, d, k) ==
    /\ hist.ops < MaxUserOps
    /\ i \notin hist.deleted
    /\ HasDate(tasks[i], d) /\ k \in DOMAIN Items(tasks[i], d)
    /\ LET task_to_remove == Items(tasks[i], d)[k]
           items == Items(tasks[i], d)
           \* list.remove: the first element equal to the task
           first == CHOOSE j \in DOMAIN items :
                        items[j] = task_to_remove /\ \A x \in 1..(j - 1) : items[x] # task_to_remove
           rest  == [j \in 1..(Len(items) - 1) |-> IF j < first THEN items[j] ELSE items[j + 1]]
           T1    == IF Len(rest) = 0 THEN DelDate(tasks[i], d) ELSE SetItems(tasks[i], d, rest)
       IN /\ tasks' = [tasks EXCEPT ![i] = T1]
          /\ disk' = [disk EXCEPT ![i] = SaveTasks(T1, disk[i], clock)]
          /\ net' = net \cup SendToPeers(i,
                       {BroadcastMessage(i, ("date" :> d) @@ task_to_remove, "delete")})
    /\ hist' = [hist EXCEPT !.deleted = @ \cup {i}, !.ops = @ + 1]
    /\ clock' = clock + 1
    /\ UNCHANGED <<view, engine, threads, peers, stats, last, before, saved, dup>>

\* MulticastSync.full_sync: the user presses the sync button
UserFullSync(i) ==
    /\ hist.ops < MaxUserOps
    /\ i \notin hist.synced
    /\ LET messages == FullSyncMessages(i, disk[i])
       IN /\ net' = net \cup SendToPeers(i, messages)
          /\ stats' = [stats EXCEPT ![i] = [NoStats EXCEPT !.sent = Cardinality(messages)]]
    /\ hist' = [hist EXCEPT !.ops = @ + 1,
                            !.synced = @ \cup {i},
                            !.streamed = @ \cup {i},
                            !.syncedAfterDelete = @ \/ (i = "A" /\ "A" \in hist.deleted)]
    /\ clock' = clock + 1
    /\ UNCHANGED <<view, engine, threads, tasks, disk, peers, last, before, saved, dup>>

\* the listener of the addressee receives a task_update datagram and handles it
DeliverTaskUpdate ==
    \E d \in net :
        /\ d.msg.type = "task_update"
        /\ ~Oversized(d.msg)
        /\ Handle(d.to, d.msg, FALSE)
        /\ net' = net \ {d}
        /\ UNCHANGED <<view, engine, threads, clock, peers, hist>>

\* the listener receives a datagram longer than its buffer: _handle_message logs
\* "Invalid JSON received" and handles nothing
DeliverOversized ==
    \E d \in net :
        /\ Oversized(d.msg)
        /\ net' = net \ {d}
        /\ UNCHANGED <<view, engine, threads, tasks, disk, clock, peers, stats, last, before, saved, dup, hist>>

\* _handle_full_sync_request: the listener streams the file to every peer
DeliverFullSyncRequest ==
    \E d \in net :
        /\ d.msg.type = "full_sync_request"
        /\ LET messages == FullSyncMessages(d.to, disk[d.to])
           IN /\ net' = (net \ {d}) \cup SendToPeers(d.to, messages)
              /\ stats' = [stats EXCEPT ![d.to].sent = Cardinality(messages)]
        /\ last' = d.msg @@ [to |-> d.to]
        /\ before' = [tasks |-> tasks[d.to], disk |-> disk[d.to], stats |-> stats[d.to]]
        /\ saved' = FALSE
        /\ dup' = FALSE
        /\ hist' = [hist EXCEPT !.streamed = @ \cup {d.to}]
        /\ UNCHANGED <<view, engine, threads, tasks, disk, clock, peers>>

\* something on the segment asks instance i for a full sync
SendFullSyncRequest(i) ==
    /\ hist.ops < MaxUserOps
    /\ i \notin hist.requested
    /\ net' = net \cup {[to |-> i, msg |-> [type |-> "full_sync_request", sender |-> "peer"]]}
    /\ hist' = [hist EXCEPT !.ops = @ + 1, !.requested = @ \cup {i}]
    /\ clock' = clock + 1
    /\ UNCHANGED <<view, engine, threads, tasks, disk, peers, stats, last, before, saved, dup>>

\* UDP drops a datagram
Lose ==
    \E d \in net :
        /\ net' = net \ {d}
        /\ hist' = [hist EXCEPT !.lost = TRUE]
        /\ UNCHANGED <<view, engine, threads, tasks, disk, clock, peers, stats, last, before, saved, dup>>

NextNet ==
    \/ \E i \in Instances, d \in Dates, k \in 1..2 : UserDelete(i, d, k)
    \/ \E i \in Instances : UserFullSync(i)
    \/ \E i \in Instances : SendFullSyncRequest(i)
    \/ DeliverTaskUpdate
    \/ DeliverFullSyncRequest
    \/ DeliverOversized
    \/ Lose

SpecNet == InitNet /\ [][NextNet]_vars

----------------------------------------------------------------------------
(* The engine of instance A: start_listening, the listener loop, the sends, the    *)
(* cleanup timer and stop_listening                                                *)

\* the hosts of the segment: the addresses datagrams come from and go to
Hosts == PeerNames

\* "for instance, peer in self.peers.items()": the entries of the directory in the
\* order they are visited
PeerOrder  == <<"B", "C">>
InOrder(P) == SelectSeq(PeerOrder, LAMBDA p : p \in DOMAIN P)

\* one call of self.socket.sendto: whom to, what, and whether it returned (ok) or
\* raised
SendTo(to, message, failing) == [to |-> to, msg |-> message, ok |-> to \notin failing]

\* the calls up to and with the first one that raised
UntilFailure(calls) ==
    LET failed == {k \in DOMAIN calls : ~calls[k].ok}
    IN IF failed = {} THEN calls
       ELSE SubSeq(calls, 1, CHOOSE k \in failed : \A j \in failed : k <= j)

\* SendMessage whose loop ends at the first sendto that raises
SendMessage_AbortsOnFailure(socket, P, message, address, failing) ==
    IF socket = "none" THEN <<>>
    ELSE IF address # None THEN <<SendTo(address, message, failing)>>
    ELSE UntilFailure([k \in DOMAIN InOrder(P) |-> SendTo(InOrder(P)[k], message, failing)])

\* _send_message(message, address): the sendto calls it makes, in order.  Nothing
\* without a socket; one call to the address when there is one; otherwise one call
\* for every entry of the directory, a call that raises being logged inside the loop.
\* failing are the hosts to which sendto raises.
SendMessage(socket, P, message, address, failing) ==
    IF socket = "none" THEN <<>>
    ELSE IF address # None THEN <<SendTo(address, message, failing)>>
    ELSE [k \in DOMAIN InOrder(P) |-> SendTo(InOrder(P)[k], message, failing)]

RECURSIVE SendEach(_, _, _, _)
\* the loop of full_sync and _handle_full_sync_request: broadcast_task_update for
\* every task of the file in turn
SendEach(socket, P, messages, failing) ==
    IF messages = <<>> THEN <<>>
    ELSE SendMessage(socket, P, Head(messages), None, failing)
         \o SendEach(socket, P, Tail(messages), failing)

\* the full_sync task_updates for the tasks of the file, in file order
FullSyncStream(i, D) ==
    LET flat == FlatEntries(GetAllTasksWithMetadata(D))
    IN [k \in DOMAIN flat |->
          BroadcastMessage(i, ("date" :> flat[k].date) @@ flat[k].task, "full_sync")]

\* _handle_sync_request: the response built from self.app.tasks
SyncResponseOf(i, T) == [type |-> "sync_response", sender |-> NameOf(i), tasks |-> T]

\* Replies of a handler that passes every task_update it receives on to its peers
Replies_Rebroadcasts(socket, P, T, D, message, address, failing) ==
    IF ~Decodes(message) THEN <<>>
    ELSE IF message.type = "sync_request"
    THEN SendMessage(socket, P, SyncResponseOf("A", T), address, failing)
    ELSE IF message.type = "full_sync_request"
    THEN SendEach(socket, P, FullSyncStream("A", D), failing)
    ELSE IF message.type = "task_update"
    THEN SendMessage(socket, P, message, None, failing)
    ELSE <<>>

\* the sendto calls that handling a datagram from address makes
Replies(socket, P, T, D, message, address, failing) ==
    IF ~Decodes(message) THEN <<>>
    ELSE IF message.type = "sync_request"
    THEN SendMessage(socket, P, SyncResponseOf("A", T), address, failing)
    ELSE IF message.type = "full_sync_request"
    THEN SendEach(socket, P, FullSyncStream("A", D), failing)
    ELSE <<>>

\* the hosts that a sequence of calls addresses
Called(calls) == {calls[k].to : k \in DOMAIN calls}

\* the datagrams that left: the calls that returned
Delivered(calls) ==
    {[to |-> calls[k].to, msg |-> calls[k].msg] : k \in {j \in DOMAIN calls : calls[j].ok}}

\* StartListening with "self.running = True" before the bind
StartListening_RunningFirst(E, outcome) ==
    IF outcome = "bind_fails"
    THEN [E EXCEPT !.running = TRUE, !.socket = "unbound", !.started = "failed"]
    ELSE [E EXCEPT !.running = TRUE, !.socket = "open", !.listener = "waiting",
                   !.zeroconf = (outcome = "ok"), !.timer = "scheduled", !.started = "ok"]

\* start_listening: the socket is created and bound, running is set, the listener
\* thread is started, zeroconf is started (it may be unavailable or fail, which is
\* logged) and the cleanup timer is scheduled.  When bind raises, the except clause
\* logs it: the socket object stays, unbound, and nothing after the bind ran.
StartListening(E, outcome) ==
    IF outcome = "bind_fails"
    THEN [E EXCEPT !.socket = "unbound", !.started = "failed"]
    ELSE [E EXCEPT !.running = TRUE, !.socket = "open", !.listener = "waiting",
                   !.zeroconf = (outcome = "ok"), !.timer = "scheduled", !.started = "ok"]

\* stop_listening: running = False, zeroconf is unregistered and closed, the socket is
\* closed and forgotten.  The listener thread is neither joined nor interrupted.
StopListening(E) ==
    [E EXCEPT !.running = FALSE, !.zeroconf = FALSE, !.socket = "none", !.stopped = TRUE]

\* "while self.running and self.socket:" after a datagram was handled
LoopsOn(E) == IF E.running /\ E.socket # "none" THEN "waiting" ELSE "exited"

\* CleanupTimer that sweeps whether or not the engine is running
CleanupTimer_AlwaysSweeps(E, P, t) ==
    [peers |-> CleanupStalePeers(P, t), swept |-> TRUE,
     timer |-> IF E.running THEN "scheduled" ELSE "ended"]

\* cleanup_timer at clock value t: sweep and return True while running, else return
\* False, which ends the GLib timeout
CleanupTimer(E, P, t) ==
    IF E.running
    THEN [peers |-> CleanupStalePeers(P, t), swept |-> TRUE, timer |-> "scheduled"]
    ELSE [peers |-> P, swept |-> FALSE, timer |-> "ended"]

\* the datagrams that reach the socket of A
EngineMessages ==
    { [type |-> "sync_request", sender |-> "peer"],
      [type |-> "full_sync_request", sender |-> "peer"],
      [type |-> "test_message", sender |-> "peer", message |-> "mDNS connectivity test"],
      TaskUpdate(FullTask("t3", "d1", Naive(2), FALSE), "add"),
      Undecodable }

\* CalendarApp.__init__ calls start_listening once
Start ==
    \E outcome \in {"ok", "no_zeroconf", "bind_fails"} :
        /\ engine.started = "no"
        /\ engine' = StartListening(engine, outcome)
        /\ last' = [type |-> "start", to |-> "A", outcome |-> outcome]
        /\ UNCHANGED <<view, tasks, disk, clock, net, peers, stats, before, saved, dup, hist, threads>>

\* quit_application calls stop_listening
Stop ==
    /\ engine.started # "no" /\ ~engine.stopped
    /\ engine' = StopListening(engine)
    /\ last' = [type |-> "stop", to |-> "A"]
    /\ UNCHANGED <<view, tasks, disk, clock, net, peers, stats, before, saved, dup, hist, threads>>

\* recvfrom returns a datagram to the listener thread.  The thread blocks in recvfrom
\* with no timeout; closing the socket from the main thread does not wake it where
\* close leaves a blocked reader alone, and the datagram that arrives next is still
\* returned to it.
Arrive ==
    \E message \in EngineMessages, address \in Hosts :
        /\ engine.listener = "waiting"
        /\ hist.ops < MaxEngineOps
        /\ hist' = [hist EXCEPT !.ops = @ + 1]
        /\ engine' = [engine EXCEPT !.listener = "received",
                                    !.inbox = <<[msg |-> RecvFrom(message), from |-> address,
                                                 wire |-> message]>>,
                                    !.late = engine.stopped]
        /\ UNCHANGED <<view, tasks, disk, clock, net, peers, stats, last, before, saved, dup, threads>>

\* where close does wake a blocked reader, recvfrom raises OSError (or the thread finds
\* self.socket gone): "except Exception" breaks out of the loop
RecvRaises ==
    /\ engine.listener = "waiting" /\ engine.stopped
    /\ engine' = [engine EXCEPT !.listener = "exited"]
    /\ UNCHANGED <<view, tasks, disk, clock, net, peers, stats, last, before, saved, dup, hist, threads>>

\* recvfrom raises an OSError while the socket is open (the host reports a network
\* error on the socket): it is not socket.timeout, so "except Exception" logs it and
\* breaks out of the loop
RecvFails ==
    /\ engine.listener = "waiting" /\ ~engine.stopped
    /\ hist.ops < MaxEngineOps
    /\ hist' = [hist EXCEPT !.ops = @ + 1]
    /\ engine' = [engine EXCEPT !.listener = "exited"]
    /\ last' = [type |-> "recv_error", to |-> "A"]
    /\ UNCHANGED <<view, tasks, disk, clock, net, peers, stats, before, saved, dup, threads>>

\* _handle_message for the datagram recvfrom returned, then the loop test
ListenerHandles ==
    /\ engine.listener = "received"
    /\ \E failing \in SUBSET Called(Replies(engine.socket, peers["A"], tasks["A"], disk["A"],
                                          engine.inbox[1].msg, engine.inbox[1].from, {})) :
        LET d     == engine.inbox[1]
            calls == Replies(engine.socket, peers["A"], tasks["A"], disk["A"], d.msg, d.from,
                             failing)
        IN /\ Handle("A", d.msg @@ [from |-> d.from, out |-> calls, late |-> engine.late,
                                    directory |-> peers["A"], socket |-> engine.socket,
                                    failing |-> failing, wire |-> d.wire], FALSE)
           /\ net' = net \cup Delivered(calls)
           /\ engine' = [engine EXCEPT !.listener = LoopsOn(engine), !.inbox = <<>>,
                                       !.late = FALSE]
           /\ UNCHANGED <<view, clock, peers, hist, threads>>

\* the GLib timeout fires, TimerPeriod seconds after it was scheduled or last fired
TimerFires ==
    LET out == CleanupTimer(engine, peers["A"], clock + TimerPeriod)
    IN /\ engine.timer = "scheduled"
       /\ clock + TimerPeriod <= MaxPeerClock
       /\ clock' = clock + TimerPeriod
       /\ peers' = [peers EXCEPT !["A"] = out.peers]
       /\ engine' = [engine EXCEPT !.timer = out.timer]
       /\ last' = [type |-> "timer", to |-> "A", running |-> engine.running,
                   swept |-> out.swept, directory |-> peers["A"], at |-> clock + TimerPeriod]
       /\ UNCHANGED <<view, tasks, disk, net, stats, before, saved, dup, hist, threads>>

\* zeroconf calls the service listener, which it does from start to stop
EngineDiscovered(p) ==
    \E info \in Infos :
        /\ engine.zeroconf
        /\ hist.ops < MaxEngineOps
        /\ hist' = [hist EXCEPT !.ops = @ + 1]
        /\ peers' = [peers EXCEPT !["A"] = AddService(@, p, info, clock)]
        /\ last' = [type |-> "discovered", to |-> "A", peer |-> p, info |-> info,
                    directory |-> peers["A"], at |-> clock]
        /\ UNCHANGED <<view, tasks, disk, clock, net, stats, before, saved, dup, threads, engine>>

\* list.remove(task): the list without its k-th element
WithoutKth(items, k) ==
    [j \in 1..(Len(items) - 1) |-> IF j < k THEN items[j] ELSE items[j + 1]]

\* TaskManagement.delete_task while the window is open: the k-th task of date d is
\* removed, the map is saved and the delete is broadcast
EngineUserDelete(d, k) ==
    \E failing \in SUBSET (IF engine.socket = "none" THEN {} ELSE DOMAIN peers["A"]) :
        /\ engine.started # "no" /\ ~engine.stopped
        /\ hist.ops < MaxEngineOps
        /\ hist' = [hist EXCEPT !.ops = @ + 1]
        /\ HasDate(tasks["A"], d) /\ k \in DOMAIN Items(tasks["A"], d)
        /\ LET task_to_remove == Items(tasks["A"], d)[k]
               rest  == WithoutKth(Items(tasks["A"], d), k)
               T1    == IF Len(rest) = 0 THEN DelDate(tasks["A"], d)
                        ELSE SetItems(tasks["A"], d, rest)
               calls == SendMessage(engine.socket, peers["A"],
                            BroadcastMessage("A", ("date" :> d) @@ task_to_remove, "delete"),
                            None, failing)
           IN /\ tasks' = [tasks EXCEPT !["A"] = T1]
              /\ disk' = [disk EXCEPT !["A"] = SaveTasks(T1, disk["A"], clock)]
              /\ net' = net \cup Delivered(calls)
              /\ last' = [type |-> "broadcast", to |-> "A", out |-> calls,
                          directory |-> peers["A"], socket |-> engine.socket,
                          failing |-> failing]
        /\ before' = [tasks |-> tasks["A"], disk |-> disk["A"], stats |-> stats["A"]]
        /\ UNCHANGED <<view, clock, peers, stats, saved, dup, threads, engine>>

\* MulticastSync.full_sync while the window is open: sync_stats is reset, every task
\* of the file is broadcast, sent is set to the number of tasks
EngineUserFullSync ==
    \E failing \in SUBSET Called(SendEach(engine.socket, peers["A"],
                                            FullSyncStream("A", disk["A"]), {})) :
        /\ engine.started # "no" /\ ~engine.stopped
        /\ hist.ops < MaxEngineOps
        /\ hist' = [hist EXCEPT !.ops = @ + 1]
        /\ LET messages == FullSyncStream("A", disk["A"])
               calls    == SendEach(engine.socket, peers["A"], messages, failing)
           IN /\ net' = net \cup Delivered(calls)
              /\ stats' = [stats EXCEPT !["A"] = [NoStats EXCEPT !.sent = Len(messages)]]
              /\ last' = [type |-> "full_sync", to |-> "A", out |-> calls,
                          directory |-> peers["A"], socket |-> engine.socket,
                          failing |-> failing, count |-> Len(messages)]
        /\ before' = [tasks |-> tasks["A"], disk |-> disk["A"], stats |-> stats["A"]]
        /\ UNCHANGED <<view, tasks, disk, clock, peers, saved, dup, threads, engine>>

NextEngine ==
    \/ Start
    \/ Stop
    \/ Arrive
    \/ RecvRaises
    \/ RecvFails
    \/ ListenerHandles
    \/ TimerFires
    \/ \E p \in Announced : EngineDiscovered(p)
    \/ \E d \in Dates, k \in 1..2 : EngineUserDelete(d, k)
    \/ EngineUserFullSync

\* the datagrams of every type and operation that a peer may send to the socket of A
ReceiptMessages ==
    EngineMessages \cup
    { TaskUpdate(FullTask("t2", "d2", Naive(3), FALSE), "update"),
      TaskUpdate(FullTask("t2", "d1", Naive(3), FALSE) @@ [old_date |-> "d2"], "move"),
      TaskUpdate(SparseTask("t2", "d2", FALSE), "delete"),
      TaskUpdate(FullTask("t3", "d1", Naive(2), FALSE), "full_sync"),
      SyncResponse(<<Bucket("d1", <<RemoteTask("t3", Naive(2))>>)>>),
      TaskUpdate([FullTask("t4", "d1", Naive(2), FALSE) EXCEPT !.description = LongText],
                 "add"),
      SyncResponse(<<Bucket("d1", <<[RemoteTask("t4", Naive(2))
                                       EXCEPT !.description = LongText]>>)>>) }

\* recvfrom returns one of them to the listener thread
ArriveAny ==
    \E message \in ReceiptMessages, address \in Hosts :
        /\ engine.listener = "waiting"
        /\ hist.ops < MaxEngineOps
        /\ hist' = [hist EXCEPT !.ops = @ + 1]
        /\ engine' = [engine EXCEPT !.listener = "received",
                                    !.inbox = <<[msg |-> RecvFrom(message), from |-> address,
                                                 wire |-> message]>>,
                                    !.late = engine.stopped]
        /\ UNCHANGED <<view, tasks, disk, clock, net, peers, stats, last, before, saved, dup,
                       threads>>

\* an engine that is started, hears of its peers and receives datagrams
NextReceipt ==
    \/ Start
    \/ ArriveAny
    \/ ListenerHandles
    \/ \E p \in Announced : EngineDiscovered(p)

\* the file holds a tombstone and a live task
InitEngine ==
    /\ InitSingle
    /\ disk["A"] = <<Vtodo("t1", "d1", 2, TRUE), Vtodo("t2", "d2", 2, FALSE)>>

SpecEngine == InitEngine /\ [][NextEngine]_vars

SpecReceipt == InitEngine /\ [][NextReceipt]_vars

----------------------------------------------------------------------------
(* The task view of instance A, the listener and the idle queue *)

\* _add_task_row: a frame keeps the task dict and a description buffer filled from it
\* (the time entry and the alarm check, which no step of this run edits, always show
\* what the task holds)
Frame(task) ==
    [task |-> task,
     desc |-> IF "description" \in DOMAIN task THEN task.description ELSE ""]

\* TaskManagement._show_task_list: a new task_list with one frame for every task of
\* self.tasks[date_str]; the KeyError of a missing date comes after the new, empty
\* task_list is in place
ShowTaskList(V, T) ==
    LET items == Items(T, V.selected)
    IN [V EXCEPT !.listed = TRUE,
                 !.frames = [k \in DOMAIN items |-> Frame(items[k])]]

\* what save_current_tasks makes of the task of one frame at clock value t
SavedTask(frame, t) ==
    LET task == frame.task
        new_time == IF "time" \in DOMAIN task THEN task.time ELSE ""
        timed == ("time" :> new_time) @@ task
        new_description == IF TextLen(frame.desc) > MaxDescriptionLength
                           THEN LongText ELSE frame.desc
        old_description == IF "description" \in DOMAIN timed THEN timed.description ELSE ""
        described == IF old_description # new_description
                     THEN [description |-> new_description, updated_at |-> NowIso(t)] @@ timed
                     ELSE ("description" :> new_description) @@ timed
        cleared == [k \in DOMAIN described \ {"needs_attention"} |-> described[k]]
    IN [task |-> cleared,
        changed |-> old_description # new_description \/ "needs_attention" \in DOMAIN task]

\* TaskManagement.save_current_tasks: the bucket of the selected date becomes the list
\* of the tasks of the frames; with a change the map is saved and every task of the
\* list is given its date and broadcast (with no socket nothing is sent)
SaveCurrentTasks(V, T, D, t) ==
    IF V.mode # "tasks" \/ V.selected = None \/ ~V.listed
    THEN [view |-> V, tasks |-> T, disk |-> D, saved |-> FALSE]
    ELSE
      LET date_str == V.selected
          done == [k \in DOMAIN V.frames |-> SavedTask(V.frames[k], t)]
          list == [k \in DOMAIN done |-> done[k].task]
          T0 == IF list # <<>> THEN SetItems(T, date_str, list)
                ELSE IF HasDate(T, date_str) THEN DelDate(T, date_str) ELSE T
          has_changes == (\E k \in DOMAIN done : done[k].changed)
                            \/ (list = <<>> /\ HasDate(T, date_str))
          dated == [k \in DOMAIN list |->
                      IF has_changes THEN [date |-> date_str] @@ list[k] ELSE list[k]]
          T1 == IF list # <<>> THEN SetItems(T0, date_str, dated) ELSE T0
      IN [view |-> [V EXCEPT !.frames = [k \in DOMAIN dated |->
                                            [task |-> dated[k], desc |-> V.frames[k].desc]]],
          tasks |-> T1,
          disk |-> IF has_changes THEN SaveTasks(T0, D, t) ELSE D,
          saved |-> has_changes]

\* the closure safe_update_ui of the add/update branch, run by the main loop
SafeUpdateUi(V, T, callback) ==
    IF V.mode = "tasks" /\ V.selected # None /\ V.selected = callback.date
    THEN ShowTaskList(V, T)
    ELSE V

\* the closure safe_update_ui_move, queued after every operation; old_date_str is
\* bound in the move branch only, and reading it unbound raises inside the try
SafeUpdateUiMove(V, T, callback) ==
    IF V.mode = "tasks" /\ V.selected # None
    THEN IF V.selected = callback.date THEN ShowTaskList(V, T)
         ELSE IF callback.old_date = "unbound" THEN V
         ELSE IF V.selected = callback.old_date THEN ShowTaskList(V, T)
         ELSE V
    ELSE V

\* the callbacks that _apply_task_update hands to GLib.idle_add for an add or update
QueuedByUpdate(message) ==
    IF TruthyStr(Get(message.task, "id")) /\ TruthyStr(Get(message.task, "date"))
    THEN << [fn |-> "safe_update_ui", date |-> message.task.date, old_date |-> "unbound"],
            [fn |-> "safe_update_ui_move", date |-> message.task.date,
             old_date |-> "unbound"] >>
    ELSE <<>>

\* the task_update datagrams of this run: a new task t3 for either date, and a newer
\* copy of t1
ViewMessages ==
    {TaskUpdate(FullTask("t3", d, Naive(2), FALSE), op) : d \in Dates, op \in {"add", "update"}}
        \cup {TaskUpdate(FullTask("t1", "d1", Naive(3), FALSE), "update")}

\* the texts a user may leave in a description buffer
Texts == {"a", "x", "y"}

\* the listener thread handles an add or update and queues the refresh
ListenerApplies ==
    \E message \in ViewMessages :
        /\ clock < MaxClock
        /\ clock' = clock + 1
        /\ Len(view.queued) + 2 <= 2 * MaxIdle
        /\ Handle("A", message, FALSE)
        /\ view' = [view EXCEPT !.queued = @ \o QueuedByUpdate(message)]
        /\ UNCHANGED <<engine, threads, net, peers, hist>>

\* the main loop runs the callback at the head of the idle queue
IdleRuns ==
    /\ view.queued # <<>>
    /\ LET callback == Head(view.queued)
           V == [view EXCEPT !.queued = Tail(@)]
       IN view' = IF callback.fn = "safe_update_ui"
                  THEN SafeUpdateUi(V, tasks["A"], callback)
                  ELSE SafeUpdateUiMove(V, tasks["A"], callback)
    /\ UNCHANGED <<tasks, disk, clock, net, peers, stats, last, before, saved, dup, hist,
                   threads, engine>>

\* TaskManagement.show_task_view(date): the user opens the task view of a date
ShowTaskView ==
    \E date \in Dates :
        /\ hist.ops < MaxUserOps
        /\ hist' = [hist EXCEPT !.ops = @ + 1]
        /\ LET first == IF view.selected # None /\ view.mode = "tasks" /\ view.selected # date
                        THEN SaveCurrentTasks(view, tasks["A"], disk["A"], clock)
                        ELSE [view |-> view, tasks |-> tasks["A"], disk |-> disk["A"],
                              saved |-> FALSE]
               V == [first.view EXCEPT !.selected = date, !.mode = "tasks",
                                       !.listed = FALSE, !.frames = <<>>]
           IN /\ view' = IF Len(Items(first.tasks, date)) = 0 THEN V
                         ELSE ShowTaskList(V, first.tasks)
              /\ tasks' = [tasks EXCEPT !["A"] = first.tasks]
              /\ disk' = [disk EXCEPT !["A"] = first.disk]
              /\ saved' = first.saved
              /\ before' = [tasks |-> tasks["A"], disk |-> disk["A"], stats |-> stats["A"]]
              /\ last' = [type |-> "show_task_view", to |-> "A", date |-> date]
              /\ dup' = FALSE
        /\ UNCHANGED <<clock, net, peers, stats, threads, engine>>

\* the user leaves a text in the description of the k-th frame and moves the focus
\* away: _on_desc_focus_out calls save_current_tasks
EditAndSave ==
    \E k \in DOMAIN view.frames : \E text \in Texts :
        /\ hist.ops < MaxUserOps
        /\ hist' = [hist EXCEPT !.ops = @ + 1]
        /\ LET V == [view EXCEPT !.frames[k].desc = text]
               out == SaveCurrentTasks(V, tasks["A"], disk["A"], clock)
           IN /\ view' = out.view
              /\ tasks' = [tasks EXCEPT !["A"] = out.tasks]
              /\ disk' = [disk EXCEPT !["A"] = out.disk]
              /\ saved' = out.saved
              /\ before' = [tasks |-> tasks["A"], disk |-> disk["A"], stats |-> stats["A"]]
              /\ last' = [type |-> "save_current_tasks", to |-> "A", date |-> view.selected,
                          edited |-> Get(view.frames[k].task, "id")]
              /\ dup' = FALSE
        /\ UNCHANGED <<clock, net, peers, stats, threads, engine>>

NextView == ListenerApplies \/ IdleRuns \/ ShowTaskView \/ EditAndSave

SpecView == InitSingle /\ [][NextView]_vars

----------------------------------------------------------------------------
(* What the last handled datagram was, and the state it met *)

Handler    == last.to                       \* the instance that handled it
Remote     == last.task                     \* the task it carried
RemoteId   == Get(last.task, "id")
RemoteDate == Get(last.task, "date")

\* a well-formed task_update with this operation was handled last
Handled(operation) ==
    /\ last.type = "task_update"
    /\ last.operation = operation
    /\ TruthyStr(RemoteId) /\ TruthyStr(RemoteDate)

\* the task with the remote id met in the target date bucket (the first one)
LocalMet == LET items == Items(before.tasks, RemoteDate)
            IN items[IndexOfId(items, RemoteId)]
MetInBucket == HasId(Items(before.tasks, RemoteDate), RemoteId)

\* the task with the remote id that is in the target date bucket now
LocalNow == LET items == Items(tasks[Handler], RemoteDate)
            IN items[IndexOfId(items, RemoteId)]
InBucketNow == HasId(Items(tasks[Handler], RemoteDate), RemoteId)

\* both timestamps are present and parse
Comparable(a, b) ==
    /\ TruthyStamp(a) /\ TruthyStamp(b)
    /\ ~Unparseable(a) /\ ~Unparseable(b)

\* the dates of the buckets of instance i that hold a task with this id
BucketsOf(i, id) == {e[1] : e \in EntriesOfId(tasks[i], id)}

\* the VTODOs of a file with this uid
VtodosOf(D, id) == {D[k] : k \in {j \in DOMAIN D : D[j].uid = id}}

\* the ids that the instance knew before: in its task map or in its file
KnownBefore(id) ==
    \/ EntriesOfId(before.tasks, id) # {}
    \/ VtodosOf(before.disk, id) # {}

----------------------------------------------------------------------------
(* C1..C10 *)

\* C1 (as claimed): handling the same add, update, delete or move datagram a second
\* time leaves the task map as the first handling left it.
C1_Idempotent ==
    (/\ dup
     /\ \E op \in {"add", "update", "delete", "move"} : Handled(op))
        => TaskMap(tasks[Handler]) = TaskMap(before.tasks)

\* C2: an update that meets its id in the target bucket with an older updated_at
\* leaves there a task that has every field of the remote task, the same id, and the
\* remote updated_at.
C2_Case ==
    /\ Handled("update")
    /\ MetInBucket
    /\ Comparable(Get(Remote, "updated_at"), Get(LocalMet, "updated_at"))
    /\ WallOf(Get(Remote, "updated_at")) > WallOf(Get(LocalMet, "updated_at"))

C2_LwwOnUpdate ==
    C2_Case =>
        /\ InBucketNow
        /\ \A k \in DOMAIN Remote : k \in DOMAIN LocalNow /\ LocalNow[k] = Remote[k]
        /\ Get(LocalNow, "id") = Get(LocalMet, "id")
        /\ Get(LocalNow, "updated_at") = Get(Remote, "updated_at")
        /\ IndexOfId(Items(tasks[Handler], RemoteDate), RemoteId)
             = IndexOfId(Items(before.tasks, RemoteDate), RemoteId)

C2_Witness ==
    /\ C2_Case
    /\ ~dup
    /\ Get(LocalMet, "description") # Get(Remote, "description")
    /\ Get(LocalNow, "description") = "x"

\* C3: an update that meets its id in the target bucket with a later or equal
\* updated_at changes neither the task map nor the file, and does not save.
C3_Case ==
    /\ Handled("update")
    /\ MetInBucket
    /\ Comparable(Get(Remote, "updated_at"), Get(LocalMet, "updated_at"))
    /\ WallOf(Get(Remote, "updated_at")) <= WallOf(Get(LocalMet, "updated_at"))

C3_OlderUpdateIgnored ==
    C3_Case =>
        /\ tasks[Handler] = before.tasks
        /\ disk[Handler] = before.disk
        /\ ~saved

C3_Witness ==
    /\ C3_Case
    /\ ~dup
    /\ WallOf(Get(Remote, "updated_at")) = WallOf(Get(LocalMet, "updated_at"))
    /\ Get(LocalMet, "description") # Get(Remote, "description")

\* C4 (as claimed): an add that meets its id in the target bucket with a later or
\* equal updated_at leaves the task map unchanged.
C4_Case ==
    /\ Handled("add")
    /\ MetInBucket
    /\ Comparable(Get(Remote, "updated_at"), Get(LocalMet, "updated_at"))
    /\ WallOf(Get(Remote, "updated_at")) <= WallOf(Get(LocalMet, "updated_at"))

C4_OlderAddIgnored ==
    C4_Case => TaskMap(tasks[Handler]) = TaskMap(before.tasks)

\* C5 (as claimed): a full_sync tombstone for an id that is live locally leaves that
\* task DELETED in the task map and in the file.
C5_Case ==
    /\ Handled("full_sync")
    /\ Get(Remote, "status") = "DELETED"
    /\ \E e \in EntriesOfId(before.tasks, RemoteId) : Get(e[2], "status") # "DELETED"
    /\ \E v \in VtodosOf(before.disk, RemoteId) : v.status = "NEEDS-ACTION"

C5_TombstoneApplied ==
    C5_Case =>
        /\ \A e \in EntriesOfId(tasks[Handler], RemoteId) : Get(e[2], "status") = "DELETED"
        /\ \A v \in VtodosOf(disk[Handler], RemoteId) : v.status = "CANCELLED"

\* C7: a full_sync tombstone for an id the instance does not know creates no task and
\* leaves the task map as it was.
C7_Case ==
    /\ Handled("full_sync")
    /\ Get(Remote, "status") = "DELETED"
    /\ ~KnownBefore(RemoteId)

C7_NoResurrection ==
    C7_Case =>
        /\ tasks[Handler] = before.tasks
        /\ EntriesOfId(tasks[Handler], RemoteId) = {}

C7_Witness == C7_Case /\ ~dup /\ ~saved /\ stats[Handler].received > 0

\* C8 (as claimed): after a move, the task is in the target bucket and in no other.
C8_MoveAtomic ==
    Handled("move") => BucketsOf(Handler, RemoteId) = {RemoteDate}

\* C6 (as claimed): both instances hold task t1, the user of A deletes it, A then runs
\* a full sync, and every datagram is delivered: t1 is then a tombstone on B, neither
\* live nor removed without trace.
C6_Case ==
    /\ hist.scenario = "shared"
    /\ hist.syncedAfterDelete
    /\ "B" \notin hist.deleted
    /\ ~hist.lost
    /\ net = {}

C6_TombstonePropagates ==
    C6_Case =>
        /\ \A e \in EntriesOfId(tasks["B"], "t1") : Get(e[2], "status") = "DELETED"
        /\ \A v \in VtodosOf(disk["B"], "t1") : v.status = "CANCELLED"
        /\ EntriesOfId(tasks["B"], "t1") # {} \/ VtodosOf(disk["B"], "t1") # {}

\* C10 (as claimed): a full_sync task that is strictly newer than the live local task
\* of the same id leaves the local task with every non-id field of the remote task.
C10_Case ==
    /\ Handled("full_sync")
    /\ Get(Remote, "status") # "DELETED"
    /\ EntriesOfId(before.tasks, RemoteId) # {}
    /\ VtodosOf(before.disk, RemoteId) # {}
    /\ \A e \in EntriesOfId(before.tasks, RemoteId) :
          /\ Get(e[2], "status") # "DELETED"
          /\ Comparable(Get(Remote, "updated_at"), Get(e[2], "updated_at"))
          /\ WallOf(Get(Remote, "updated_at")) > WallOf(Get(e[2], "updated_at"))
    /\ \A v \in VtodosOf(before.disk, RemoteId) :
          /\ v.status = "NEEDS-ACTION"
          /\ WallOf(Get(Remote, "updated_at")) > WallOf(v.lastmod)

C10_LwwOnFullSync ==
    C10_Case =>
        \A e \in EntriesOfId(tasks[Handler], RemoteId) :
            \A k \in DOMAIN Remote \ {"id"} : Get(e[2], k) = Remote[k]

\* a task without the keys that only travel with a datagram
Strip(task) == [k \in DOMAIN task \ {"date", "old_date"} |-> task[k]]

\* the tasks of a map, each with its date, as a set
Dated(T) == {<<e[1], Strip(e[2])>> : e \in Entries(T)}

RECURSIVE TaskCount(_)
TaskCount(T) == IF T = <<>> THEN 0 ELSE Len(Head(T).items) + TaskCount(Tail(T))

\* the union of the task sets the two instances of a scenario start with
OriginalUnion(scenario) ==
    UNION {Dated(LoadTasks(ScenarioDisks(scenario)[i])) : i \in Instances}

\* C9 (as claimed): two instances that know each other start with disjoint task
\* sets; both stream their tasks (A by a full sync, B by a full sync or in answer to
\* a full_sync request), no datagram is lost and nothing else is edited: once every
\* datagram has reached its listener, each task map is the union of the two original
\* sets.
C9_Case ==
    /\ hist.scenario \in {"disjoint", "disjointLong"}
    /\ hist.streamed = Instances
    /\ hist.deleted = {}
    /\ ~hist.lost
    /\ net = {}

UnionReached(scenario) ==
    \A i \in Instances :
        /\ Dated(tasks[i]) = OriginalUnion(scenario)
        /\ TaskCount(tasks[i]) = Cardinality(OriginalUnion(scenario))
        /\ Dated(LoadTasks(disk[i])) = OriginalUnion(scenario)

C9_Converges == C9_Case => UnionReached(hist.scenario)

\* the same for tasks whose datagrams fit the receive buffer: there the union is reached
ConvergesWhenFits ==
    (C9_Case /\ hist.scenario = "disjoint") => UnionReached("disjoint")

ConvergesWhenFits_Witness ==
    /\ C9_Case /\ hist.scenario = "disjoint"
    /\ EntriesOfId(tasks["A"], "t2") # {}
    /\ EntriesOfId(tasks["B"], "t1") # {}
    /\ stats["A"].received > 0 /\ stats["B"].received > 0

----------------------------------------------------------------------------
(* C11..C20 *)

\* the ids that the payload of the last datagram names
RECURSIVE IdsOfMap(_)
IdsOfMap(remote_tasks) ==
    IF remote_tasks = <<>> THEN {}
    ELSE {Get(Head(remote_tasks).items[k], "id") :
             k \in {j \in DOMAIN Head(remote_tasks).items :
                       IsDict(Head(remote_tasks).items[j])}}
         \cup IdsOfMap(Tail(remote_tasks))

RemoteIds ==
    IF last.type = "sync_response"
    THEN IF "tasks" \in DOMAIN last /\ IsTaskMap(last.tasks) THEN IdsOfMap(last.tasks)
         ELSE {}
    ELSE {Get(last.task, "id")}

\* C11: handling a sync_response or a full_sync task_update removes no bucket and no
\* task of the task map, and leaves every task whose id the payload does not name
\* exactly as it was, at its place.
C11_Case ==
    \/ last.type = "sync_response"
    \/ last.type = "task_update" /\ last.operation = "full_sync"

C11_LocalOnlyKept ==
    C11_Case =>
        \A k \in DOMAIN before.tasks :
            LET d   == before.tasks[k].date
                old == before.tasks[k].items
                new == Items(tasks[Handler], d)
            IN /\ HasDate(tasks[Handler], d)
               /\ Len(new) >= Len(old)
               /\ \A j \in DOMAIN old :
                     /\ Get(new[j], "id") = Get(old[j], "id")
                     /\ Get(old[j], "id") \notin RemoteIds => new[j] = old[j]

\* a sync_response that changed a task of a bucket in which a local-only task sits
C11_Witness ==
    /\ last.type = "sync_response"
    /\ saved
    /\ \E k \in DOMAIN before.tasks :
          LET old == before.tasks[k].items
              new == Items(tasks[Handler], before.tasks[k].date)
          IN /\ Len(old) = Len(new)
             /\ \E j \in DOMAIN old : Get(old[j], "id") \notin RemoteIds
             /\ \E j \in DOMAIN old : new[j] # old[j]

\* C12: a delete for id i and date d leaves in bucket d exactly the tasks whose id is
\* not i, in their order, drops the bucket when nothing is left, touches no other
\* bucket, and when i is not in d changes neither map nor file and counts no error.
C12_Case == Handled("delete")

C12_DeleteExact ==
    C12_Case =>
        LET T0  == before.tasks
            T1  == tasks[Handler]
            old == Items(T0, RemoteDate)
            kept == SelectSeq(old, LAMBDA x : Get(x, "id") # RemoteId)
        IN /\ DatesOf(T1) \subseteq DatesOf(T0)
           /\ \A d \in DatesOf(T0) \ {RemoteDate} :
                 HasDate(T1, d) /\ Items(T1, d) = Items(T0, d)
           /\ Items(T1, RemoteDate) = kept
           /\ (MetInBucket /\ kept = <<>>) => ~HasDate(T1, RemoteDate)
           /\ (MetInBucket /\ kept # <<>>) => HasDate(T1, RemoteDate)
           /\ ~MetInBucket => (T1 = T0 /\ disk[Handler] = before.disk /\ ~saved)
           /\ stats[Handler].errors = before.stats.errors

\* a delete that took one of two tasks out of a bucket
C12_Witness ==
    /\ C12_Case /\ ~dup
    /\ MetInBucket
    /\ HasDate(tasks[Handler], RemoteDate)
    /\ Len(Items(tasks[Handler], RemoteDate)) < Len(Items(before.tasks, RemoteDate))

\* the fault of the last datagram left a trace in sync_stats: the error count went
\* up, or an entry for the date was added to error_dates
ErrorCounted == stats[Handler].errors > before.stats.errors
DateRecorded(d) ==
    \E k \in DOMAIN stats[Handler].error_dates : stats[Handler].error_dates[k][1] = d

\* C19 (as claimed): a task_update whose task lacks the id or the date changes
\* neither the task map nor the file, and is counted in sync_stats.
C19_Case ==
    /\ last.type = "task_update"
    /\ DOMAIN last.task # {}
    /\ ~TruthyStr(RemoteId) \/ ~TruthyStr(RemoteDate)

C19_MissingIdCounted ==
    C19_Case =>
        /\ tasks[Handler] = before.tasks
        /\ disk[Handler] = before.disk
        /\ ErrorCounted

\* the part of C19 that the handler does keep: such a task_update is dropped
C19_MissingIdDropped ==
    C19_Case =>
        /\ tasks[Handler] = before.tasks
        /\ disk[Handler] = before.disk
        /\ ~saved

\* C18 (as claimed): when an update or a full_sync task_update meets its id locally
\* and one of the two updated_at stamps does not parse, the error count goes up and
\* the date is recorded in error_dates.
C18_Case ==
    /\ \/ Handled("update") /\ MetInBucket
             /\ TruthyStamp(Get(Remote, "updated_at"))
             /\ TruthyStamp(Get(LocalMet, "updated_at"))
             /\ \/ Unparseable(Get(Remote, "updated_at"))
                \/ Unparseable(Get(LocalMet, "updated_at"))
       \/ /\ Handled("full_sync")
          /\ Get(Remote, "status") # "DELETED"
          /\ Unparseable(Get(Remote, "updated_at"))
          /\ \E v \in VtodosOf(before.disk, RemoteId) : v.status = "NEEDS-ACTION"

C18_ParseFailureRecorded ==
    C18_Case => (ErrorCounted /\ DateRecorded(RemoteDate))

\* the task lists of a sync_response map hold an entry that is not a dict
RECURSIVE HasJunkEntry(_)
HasJunkEntry(remote_tasks) ==
    /\ remote_tasks # <<>>
    /\ \/ \E k \in DOMAIN Head(remote_tasks).items : ~IsDict(Head(remote_tasks).items[k])
       \/ HasJunkEntry(Tail(remote_tasks))

\* the last datagram was malformed: not JSON, of no known type, without its task or
\* task map, with a task that lacks id or date, or with a task map that is not a
\* dict or holds an entry that is not a dict
Malformed ==
    \/ ~Decodes(last)
    \/ last.type \notin {"none", "sync_request", "sync_response", "task_update",
                         "test_message", "full_sync_request"}
    \/ /\ last.type = "task_update"
       /\ (DOMAIN last.task = {} \/ ~TruthyStr(RemoteId) \/ ~TruthyStr(RemoteDate))
    \/ /\ last.type = "sync_response"
       /\ \/ "tasks" \notin DOMAIN last
          \/ ~IsTaskMap(last.tasks)
          \/ HasJunkEntry(last.tasks)

\* C16 (as claimed): after a malformed datagram the task map and the file are what
\* they were before it.
C16_MalformedNotApplied ==
    Malformed =>
        /\ tasks[Handler] = before.tasks
        /\ disk[Handler] = before.disk

\* the same for every malformed datagram but a task map with a non-dict entry
C16_EnvelopeNotApplied ==
    (Malformed /\ ~(last.type = "sync_response" /\ "tasks" \in DOMAIN last
                     /\ IsTaskMap(last.tasks) /\ HasJunkEntry(last.tasks))) =>
        /\ tasks[Handler] = before.tasks
        /\ disk[Handler] = before.disk

\* an entry of a sync_response task list whose reconciliation fails
Faulty(x) == ~IsDict(x) \/ Unparseable(Get(x, "updated_at"))

RECURSIVE WithoutFaulty(_)
WithoutFaulty(remote_tasks) ==
    IF remote_tasks = <<>> THEN <<>>
    ELSE <<Bucket(Head(remote_tasks).date,
                  SelectSeq(Head(remote_tasks).items, LAMBDA x : ~Faulty(x)))>>
         \o WithoutFaulty(Tail(remote_tasks))

\* what the batch of the last sync_response would have done without its faulty tasks
\* (the instance read clock - 1 while it handled the datagram)
ExpectedWithoutFaulty ==
    MergeTasks(before.tasks, before.disk, before.stats,
               WithoutFaulty(last.tasks), clock - 1)

\* the ids of the faulty tasks of a batch, and the tasks of a map with other ids
RECURSIVE FaultyIds(_)
FaultyIds(remote_tasks) ==
    IF remote_tasks = <<>> THEN {}
    ELSE {Get(Head(remote_tasks).items[k], "id") :
             k \in {j \in DOMAIN Head(remote_tasks).items :
                       /\ IsDict(Head(remote_tasks).items[j])
                       /\ Faulty(Head(remote_tasks).items[j])}}
         \cup FaultyIds(Tail(remote_tasks))

OtherTasks(T) == {e \in Entries(T) : Get(e[2], "id") \notin FaultyIds(last.tasks)}

\* C17 (as claimed): after a sync_response batch with a faulty task, every task with
\* another id is in the task map as the same batch without the faulty task would
\* have left it.
C17_Case ==
    /\ last.type = "sync_response"
    /\ "tasks" \in DOMAIN last /\ IsTaskMap(last.tasks)
    /\ WithoutFaulty(last.tasks) # last.tasks

C17_FaultIsolated ==
    C17_Case => OtherTasks(tasks[Handler]) = OtherTasks(ExpectedWithoutFaulty.tasks)

\* the same when the only faults are unparseable timestamps: there the batch goes on
C17_StampFaultIsolated ==
    (C17_Case /\ ~HasJunkEntry(last.tasks)) =>
        OtherTasks(tasks[Handler]) = OtherTasks(ExpectedWithoutFaulty.tasks)

\* C20: after a sweep at time t the directory holds exactly the entries it held
\* before whose last_seen is not older than t - 120 s, each unchanged.
C20_StaleEvicted ==
    last.type = "sweep" =>
        /\ DOMAIN peers["A"] =
              {p \in DOMAIN last.directory :
                  WallOf(last.directory[p].last_seen) >= last.at - StaleAfter}
        /\ \A p \in DOMAIN peers["A"] : peers["A"][p] = last.directory[p]

\* a sweep that evicted one entry and kept one seen exactly 120 s before
C20_Witness ==
    /\ last.type = "sweep"
    /\ Cardinality(DOMAIN last.directory) = 2
    /\ \E p \in DOMAIN last.directory : p \notin DOMAIN peers["A"]
    /\ \E p \in DOMAIN peers["A"] :
          WallOf(peers["A"][p].last_seen) = last.at - StaleAfter

\* what a thread is in the middle of
Doing(th)         == threads[th].doing
AccessesTasks(th) == Doing(th) \in {"read_tasks", "write_tasks", "save_tasks"}
MutatesTasks(th)  == Doing(th) = "write_tasks"

\* C13 (as claimed): a thread reads or changes the task map only while it holds
\* tasks_lock, and no thread is in the task map while another changes it.
C13_MutualExclusion ==
    /\ \A th \in Threads : AccessesTasks(th) => HeldBy(th, "tasks_lock")
    /\ \A a, b \in Threads : (a # b /\ MutatesTasks(a)) => ~AccessesTasks(b)

\* C13 (as claimed), the race alone: no thread is in the task map while another
\* changes it.
C13_NoRace ==
    \A a, b \in Threads : (a # b /\ MutatesTasks(a)) => ~AccessesTasks(b)

\* C14 (as claimed): save_tasks and calls into the widgets run on the main loop only.
C14_ThreadAffinity ==
    \A th \in Threads \ {"main"} : Doing(th) \notin {"save_tasks", "ui"}

\* C15: no thread holds tasks_lock and peers_lock at once, and no two threads each
\* wait for a lock that the other holds.
WaitsFor(a, b) ==
    /\ NextStep(a, "acquire")
    /\ HeldBy(b, Head(threads[a].todo).obj)

C15_LocksNeverNested ==
    /\ \A th \in Threads : ~(HeldBy(th, "tasks_lock") /\ HeldBy(th, "peers_lock"))
    /\ \A a, b \in Threads : a # b => ~(WaitsFor(a, b) /\ WaitsFor(b, a))

\* the listener is inside _apply_task_update with tasks_lock while the main loop
\* sends with peers_lock and zeroconf waits for peers_lock
C15_Witness ==
    /\ HeldBy("listener", "tasks_lock") /\ Doing("listener") = "save_tasks"
    /\ HeldBy("main", "peers_lock")
    /\ WaitsFor("zeroconf", "main")

----------------------------------------------------------------------------
(* C21..C30 *)

\* the directory of A with and without the entry of one instance
Directory == peers["A"]
Others(P, p) == [q \in DOMAIN P \ {p} |-> P[q]]
Announcement == last.type = "discovered"

\* what an announcement of a remote key has to leave: one entry for the key, seen
\* now, and every other entry as it was
Refreshed ==
    /\ last.peer \in DOMAIN Directory
    /\ Directory[last.peer] = PeerEntry(last.at)
    /\ Others(Directory, last.peer) = Others(last.directory, last.peer)

\* C21 (as claimed): every announcement of a remote instance leaves the directory
\* with one entry for it whose last_seen is the time of the announcement; an
\* announcement of the own instance leaves the directory as it was, and the own
\* instance is never in the directory.
C21_PeerLifecycle ==
    /\ OwnName \notin DOMAIN Directory
    /\ Announcement =>
          IF last.peer = OwnName THEN Directory = last.directory ELSE Refreshed

\* C21 (amended): every announcement of a remote instance whose service info
\* resolves and can be read leaves the directory with one entry for it whose
\* last_seen is the time of the announcement; an announcement that does not resolve
\* or cannot be read, and every announcement of the own instance, leaves the
\* directory as it was; the own instance is never in the directory.
C21_ResolvedPeerLifecycle ==
    /\ OwnName \notin DOMAIN Directory
    /\ Announcement =>
          IF last.peer # OwnName /\ last.info = "resolved"
          THEN Refreshed
          ELSE Directory = last.directory

\* a known peer is announced again, later, and its entry is refreshed
C21_Witness ==
    /\ Announcement /\ last.info = "resolved"
    /\ last.peer \in DOMAIN last.directory
    /\ last.directory[last.peer] # PeerEntry(last.at)
    /\ Directory[last.peer] = PeerEntry(last.at)
    /\ DOMAIN Directory = PeerNames

\* the last thing A did was a broadcast: a local delete, a full sync the user asked
\* for, or the answer to a full_sync_request
BroadcastDone == last.type \in {"broadcast", "full_sync", "full_sync_request"}
Calls         == IF "out" \in DOMAIN last THEN last.out ELSE <<>>
FailedCalls   == {k \in DOMAIN Calls : ~Calls[k].ok}
ErrorsBefore  == IF last.type = "full_sync" THEN 0 ELSE before.stats.errors

\* C22 (as claimed): a broadcast with an empty peer directory hands no datagram to
\* the transport, counts no error, and leaves sent == 0 in sync_stats.
C22_EmptyDirectoryNoOp ==
    (BroadcastDone /\ DOMAIN last.directory = {}) =>
        /\ Calls = <<>>
        /\ stats["A"].errors = ErrorsBefore
        /\ stats["A"].sent = 0

\* C22, without the sent count: a broadcast with an empty peer directory hands no
\* datagram to the transport and counts no error.
C22_NothingSent ==
    (BroadcastDone /\ DOMAIN last.directory = {}) =>
        /\ Calls = <<>>
        /\ stats["A"].errors = ErrorsBefore

\* C23: when a send of a broadcast fails, every message of the broadcast is still
\* handed to the transport for every peer of the directory.
C23_Case == BroadcastDone /\ FailedCalls # {}

C23_FailureDoesNotAbort ==
    C23_Case =>
        \A k \in DOMAIN Calls, p \in DOMAIN last.directory :
            \E j \in DOMAIN Calls : Calls[j].to = p /\ Calls[j].msg = Calls[k].msg

\* the send to the first peer fails and the second peer is still sent to
C23_Witness ==
    /\ C23_Case
    /\ DOMAIN last.directory = {"B", "C"}
    /\ ~Calls[1].ok /\ Calls[1].to = "B"
    /\ \E j \in DOMAIN Calls : Calls[j].to = "C" /\ Calls[j].ok

\* C24 (as claimed): every failed send of a broadcast adds one to the error counter
\* of sync_stats.
C24_FailuresCounted ==
    C23_Case => stats["A"].errors = ErrorsBefore + Cardinality(FailedCalls)

\* the listener handled a datagram of this type last
Answered(type) == last.type = type /\ "from" \in DOMAIN last
Untouched      == tasks["A"] = before.tasks /\ disk["A"] = before.disk

\* one sync_response to the requester, holding the whole task map
RepliedTo(address) ==
    /\ Len(Calls) = 1
    /\ Calls[1].to = address
    /\ Calls[1].msg.type = "sync_response"
    /\ Calls[1].msg.tasks = before.tasks

\* C25 (as claimed): handling a sync_request from address a makes exactly one send, of
\* a sync_response that holds the whole task map, to a; the task map and the peer
\* directory are as they were.
C25_SyncRequestAnswered ==
    Answered("sync_request") =>
        RepliedTo(last.from) /\ Untouched /\ Directory = last.directory

\* C25, while the socket is there: the same for a sync_request handled before
\* stop_listening has closed the socket.
C25_AnsweredWhileOpen ==
    (Answered("sync_request") /\ last.socket # "none") =>
        RepliedTo(last.from) /\ Untouched /\ Directory = last.directory

\* the sends of the full_sync task_update for VTODO v to peer p
StreamedTo(v, p) ==
    {j \in DOMAIN Calls :
        /\ Calls[j].to = p
        /\ Calls[j].msg.type = "task_update"
        /\ Calls[j].msg.operation = "full_sync"
        /\ Get(Calls[j].msg.task, "id") = v.uid
        /\ Get(Calls[j].msg.task, "date") = v.dtstart
        /\ (Get(Calls[j].msg.task, "status") = "DELETED") = (v.status = "CANCELLED")}

\* every task of the file, tombstones included, once to every peer and nothing else
StreamedAll ==
    /\ \A k \in DOMAIN before.disk, p \in DOMAIN last.directory :
           Cardinality(StreamedTo(before.disk[k], p)) = 1
    /\ Len(Calls) = Len(before.disk) * Cardinality(DOMAIN last.directory)

\* C26 (as claimed): handling a full_sync_request sends, for every task of the file,
\* DELETED ones included, exactly one full_sync task_update with the task's date to
\* every peer of the directory, and leaves the task map as it was.
C26_FullSyncRequestStreams ==
    Answered("full_sync_request") => StreamedAll /\ Untouched

\* C26, while the socket is there: the same for a full_sync_request handled before
\* stop_listening has closed the socket.
C26_StreamsWhileOpen ==
    (Answered("full_sync_request") /\ last.socket # "none") => StreamedAll /\ Untouched

\* C27: handling a test_message leaves the task map, the file, the peer directory and
\* sync_stats as they were, sends nothing, and the listener goes on while the engine
\* runs.
C27_TestMessageNoChange ==
    Answered("test_message") =>
        /\ Untouched /\ ~saved
        /\ stats["A"] = before.stats
        /\ Directory = last.directory
        /\ Calls = <<>>
        /\ engine.running => engine.listener \in {"waiting", "received"}

\* a test_message was handled by a running engine that knows a peer and has a task
C27_Witness ==
    /\ Answered("test_message") /\ ~last.late
    /\ engine.running /\ engine.listener = "waiting"
    /\ DOMAIN Directory # {} /\ tasks["A"] # <<>>

\* C28 (as claimed): once stop_listening has run, running is false and the socket is
\* gone, and a datagram that arrives after it is not applied to the task map.
C28_NothingAppliedAfterStop ==
    /\ engine.stopped => ~engine.running /\ engine.socket = "none"
    /\ ("late" \in DOMAIN last /\ last.late) => Untouched

\* C28, the part that holds: once stop_listening has run, running is false, the socket
\* is gone, and the listener's loop ends after the datagram it handles next.
C28_StoppedState ==
    /\ engine.stopped => ~engine.running /\ engine.socket = "none"
    /\ ("late" \in DOMAIN last /\ last.late) => engine.listener = "exited"

\* what the cleanup timer did when it fired last
TimerFired == last.type = "timer"

\* C29: a firing of the cleanup timer while running sweeps and keeps the timer; a
\* firing once running is false sweeps nothing and ends the timer; and after the
\* timer has ended the peer directory never changes again.
C29_TimerSelfTerminates ==
    /\ [](TimerFired =>
             IF last.running
             THEN /\ last.swept /\ engine.timer = "scheduled"
                  /\ Directory = CleanupStalePeers(last.directory, last.at)
             ELSE /\ ~last.swept /\ engine.timer = "ended"
                  /\ Directory = last.directory)
    /\ [][engine.timer = "ended" => (peers' = peers /\ engine'.timer = "ended")]_vars

\* the timer fired after stop_listening and left alone an entry that a sweep would
\* have evicted
C29_Witness ==
    /\ TimerFired /\ ~last.running /\ engine.timer = "ended"
    /\ \E p \in DOMAIN Directory : Stale(Directory[p], last.at)

\* C30: after a failed bind running is false, there is no listener thread, no
\* zeroconf registration and no cleanup timer, no datagram is ever handled and none
\* is ever sent.
C30_BindFailureKeepsStopped ==
    engine.started = "failed" =>
        /\ ~engine.running
        /\ engine.listener = "none" /\ ~engine.zeroconf /\ engine.timer = "none"
        /\ engine.inbox = <<>> /\ "from" \notin DOMAIN last
        /\ Calls = <<>> /\ net = {}
        /\ Directory = NoPeers

\* the bind failed and the user then deleted a task, which was broadcast to nobody
C30_Witness ==
    /\ engine.started = "failed" /\ engine.socket = "unbound"
    /\ last.type = "broadcast"
    /\ tasks["A"] # before.tasks

----------------------------------------------------------------------------
(* C31..C39 *)

\* C31 (as claimed): a move that meets its id in the target bucket with a later or
\* equal updated_at leaves that local copy as it was.
C31_Case ==
    /\ Handled("move")
    /\ MetInBucket
    /\ Comparable(Get(Remote, "updated_at"), Get(LocalMet, "updated_at"))
    /\ WallOf(Get(Remote, "updated_at")) <= WallOf(Get(LocalMet, "updated_at"))

C31_MoveRespectsLww ==
    C31_Case => (InBucketNow /\ LocalNow = LocalMet)

\* C32 (as claimed): an update whose task carries no updated_at and that meets its id
\* in the target bucket with an updated_at leaves the task map and the file unchanged.
C32_Case ==
    /\ Handled("update")
    /\ MetInBucket
    /\ "updated_at" \notin DOMAIN Remote
    /\ TruthyStamp(Get(LocalMet, "updated_at"))

C32_UnstampedNeverWins ==
    C32_Case =>
        /\ tasks[Handler] = before.tasks
        /\ disk[Handler] = before.disk

\* the tombstones of the sync_response handled last: the ids of its DELETED tasks
SyncTombstoneIds ==
    IF last.type = "sync_response" /\ "tasks" \in DOMAIN last /\ IsTaskMap(last.tasks)
    THEN UNION { {Get(b.items[j], "id") :
                     j \in {i \in DOMAIN b.items :
                               /\ IsDict(b.items[i])
                               /\ Get(b.items[i], "status") = "DELETED"
                               /\ TruthyStr(Get(b.items[i], "id"))}} :
                 b \in {last.tasks[k] : k \in DOMAIN last.tasks} }
    ELSE {}

\* C33 (as claimed): a sync_response tombstone whose id the task map does not hold
\* puts no task with that id into the task map.
C33_NoResurrectionOnSync ==
    \A id \in SyncTombstoneIds :
        EntriesOfId(before.tasks, id) = {} => EntriesOfId(tasks[Handler], id) = {}

\* where in a task map the tasks with this id are: <<bucket, position>> pairs
Occurrences(T, id) ==
    UNION { {<<k, j>> : j \in {i \in DOMAIN T[k].items : Get(T[k].items[i], "id") = id}} :
            k \in DOMAIN T }

IdsIn(T) == {Get(e[2], "id") : e \in Entries(T)}

\* C34 (as claimed): whatever task_update datagrams an instance has handled, no id is
\* in its task map twice, neither in one bucket nor in two.
C34_IdsUnique ==
    \A i \in Instances : \A id \in IdsIn(tasks[i]) :
        Cardinality(Occurrences(tasks[i], id)) <= 1

\* C35 (as claimed): a save of the task view that edits one task leaves every other
\* task of the bucket of that date in the task map, and in the file if it was there.
C35_Case == last.type = "save_current_tasks"

C35_NoLostInsert ==
    C35_Case =>
        \A e \in Entries(before.tasks) :
            (e[1] = last.date /\ Get(e[2], "id") # last.edited) =>
                /\ EntriesOfId(tasks[Handler], Get(e[2], "id")) # {}
                /\ (VtodosOf(before.disk, Get(e[2], "id")) # {}
                      => VtodosOf(disk[Handler], Get(e[2], "id")) # {})

\* instance A has just handled a delete, and holds no task with that id
C36_Deleted ==
    /\ Handled("delete") /\ Handler = "A"
    /\ EntriesOfId(tasks["A"], RemoteId) = {}

\* the step handles a full_sync task_update that carries a live copy of that id, last
\* written before the delete was handled
C36_StaleCopyArrives ==
    /\ last'.type = "task_update" /\ last'.to = "A"
    /\ last'.operation = "full_sync"
    /\ Get(last'.task, "id") = RemoteId
    /\ TruthyStr(Get(last'.task, "date"))
    /\ Get(last'.task, "status") # "DELETED"
    /\ TruthyStamp(Get(last'.task, "updated_at"))
    /\ ~Unparseable(Get(last'.task, "updated_at"))
    /\ WallOf(Get(last'.task, "updated_at")) < clock

\* C36 (as claimed): once an instance has handled the delete of an id, handling a
\* full_sync task_update with an older live copy of that id does not bring the task
\* back into its task map.
C36_DeletionPermanent ==
    [][(C36_Deleted /\ C36_StaleCopyArrives) => EntriesOfId(tasks'["A"], RemoteId) = {}]_vars

\* the last step handled a datagram that the listener received
Received == "from" \in DOMAIN last /\ "out" \in DOMAIN last

\* C37: handling a sync_response, a task_update or a test_message makes no sendto
\* call; a sync_request makes at most one, a full_sync_request at most one for every
\* task of the file and peer of the directory; and what is sent are sync_responses
\* and task_updates, whose handling sends nothing.
C37_Case ==
    /\ Received
    /\ last.type \in {"sync_response", "task_update", "test_message"}

C38_ListenerRuns ==
    (engine.started = "ok" /\ engine.running /\ ~engine.stopped)
        => engine.listener # "exited"

\* the datagram handled last was longer than the receive buffer
C39_Case == Received /\ Oversized(last.wire)

\* C39: a datagram longer than RecvBufSize bytes changes neither the task map nor the
\* file nor the peer directory nor sync_stats, and causes no send; so a datagram that
\* changed the task map or the file was not longer than that.
C39_OversizedDropped ==
    /\ C39_Case =>
          /\ tasks[Handler] = before.tasks
          /\ disk[Handler] = before.disk
          /\ stats[Handler] = before.stats
          /\ peers[Handler] = last.directory
          /\ last.out = <<>>
          /\ ~saved
    /\ (Received /\ (tasks[Handler] # before.tasks \/ disk[Handler] # before.disk))
          => ~Oversized(last.wire)

\* an oversized task_update or sync_response for a task the instance does not hold
\* was received while the socket was open
C39_Witness ==
    /\ C39_Case
    /\ last.socket = "open"
    /\ EntriesOfId(tasks[Handler], "t4") = {}
    /\ last.wire.type \in {"task_update", "sync_response"}

====
